---- MODULE Spec2Model ----
(***************************************************************************)
(* Model lifecycle subsystem of 2k_spark: the model registries            *)
(* (backend/core/models/registry.py), the Bayesian hyperparameter search   *)
(* (backend/core/optimization), the refresh cycle                          *)
(* (backend/services/refresh_service.py) and prediction generation         *)
(* (backend/services/prediction_service.py with the two model classes).    *)
(*                                                                         *)
(* Each subsystem has its own specification (Spec, SpecOptimizer,          *)
(* SpecRefresh, SpecPredict); the variables of the other subsystems stay   *)
(* unchanged in it.                                                        *)
(***************************************************************************)
EXTENDS Integers, Sequences, FiniteSets, TLC

(***************************************************************************)
(* Bounds of the model.                                                    *)
(***************************************************************************)
NumIds == 2
MaxScore == 1
MaxWriteFailures == 1
NumParams == 2
MaxOScore == 2
MaxTrials == 3
MaxRuns == 2
MaxCycles == 3
MaxBatch == 2
RawUnit == 2
MaxRaw == 6
MaxClock == 3
TicksPerSecond == 2
MaxWrites == 3
MaxInstances == 2
MaxSaves == 2
TicksPerDay == 2
MaxDay == 1
MaxWindow == 2
MaxMatches == 3
LayoutMatches == 2
MaxCalls == 2
TokenCacheDuration == 2
MaxTokenCalls == 3

(***************************************************************************)
(* Values.  A model_id is a positive number; NoneId stands for None and    *)
(* for every other falsy model_id ("if not model_id").  A score is the     *)
(* task's scoring field of an entry (accuracy / total_score_mae); Absent   *)
(* stands for an entry without that key.                                   *)
(***************************************************************************)
NoneId == 0
Absent == -1
ModelIds == 1..NumIds
Scores == 0..MaxScore
Inf == MaxScore + 1
Kinds == {"winner", "score"}
IoOutcomes == {"ok", "open_fail", "dump_fail"}

VARIABLES
    kind,        \* registry: ModelRegistry ("winner") or ScoreModelRegistry ("score")
    inst,        \* registry: "none" (no instance, or __init__ raised) or "live"
    registry,    \* registry: self.registry of the instance
    store,       \* registry: the registry file
    call,        \* registry: the last call made ("none", "construct", "register", "remove")
    ret,         \* registry: what that call returned ("True", "False", "None", "raised")
    overwrote,   \* registry: some register_model call hit an id already listed
    failures,    \* registry: number of writes of the registry file that failed
    opt_pc,      \* optimizer: "idle", "searching", "returned", "trial_raised", "retrain_raised"
    runs,        \* optimizer: number of optimize() calls made on the instance
    n_trials,    \* optimizer: n_trials of the current optimize() call
    trials,      \* optimizer: oriented scores of the trials of the current call, in order
    gp_x,        \* optimizer: assignment of the best point the search has seen (result.x)
    best_params, \* optimizer: self.best_params
    best_score,  \* optimizer: self.best_score
    best_model,  \* optimizer: self.best_model
    results,     \* optimizer: len(self.results)
    retrains,    \* optimizer: trainings made by the current call after the search ended
    ref_pc,      \* refresh: the stage the cycle is at ("Idle" between cycles)
    ref_result,  \* refresh: what the last cycle returned ("none", "True", "False")
    cycle,       \* refresh: number of cycles started
    predictions_file, \* refresh: PREDICTIONS_FILE
    history_file,     \* refresh: PREDICTION_HISTORY_FILE
    pred_at_start,    \* refresh: PREDICTIONS_FILE as it was when the cycle started
    gen_pc,      \* generation: "idle", "predicting", "returned", "raised"
    champions,   \* generation: which champions the registries hold ("both", "no_winner", "no_score")
    loaded,      \* generation: the artifacts generate_predictions has loaded
    score_model, \* generation: the ScorePredictionModel instance in use
    matches,     \* generation: upcoming_matches of the call
    predictions, \* generation: the predictions list built so far
    now,         \* generation: the wall clock, in ticks
    last_run,    \* generation: input and output of the last call that returned from the loop
    sp_match,    \* score model: the match of the last predict call
    sp_raw,      \* score model: what the two regressors returned in that call
    sp_out,      \* score model: what that call returned
    sp_trip,     \* score model: predict before save and after load, for one match
    io_kind,     \* files: the file looked at ("predictions", "history", "registry")
    disk,        \* files: whether the file exists and the tokens it holds
    wr,          \* files: the writer: the document it is writing, if any
    rd,          \* files: the last read: whether the file was half-written, and the result
    persisted,   \* files: the payloads of the documents written completely so far
    writes,      \* files: number of writes started
    instances,   \* artifacts: the model objects created, each with its class and model_id
    art_writes,  \* artifacts: how many times each artifact path was written
    fe_config,   \* features: feature_config of the FeatureEngineer
    fe_stats,    \* features: the player_stats argument
    fe_matches,  \* features: the matches argument
    fe_mode,     \* features: "score" when for_score_prediction, else "winner"
    fe_calls,    \* features: number of extract_features calls made
    fe_result,   \* features: what the last extract_features call returned
    fe_recent,   \* features: per row of that call, the ids of the two recent-form windows
    tk_cache,    \* token: the token cache file
    tk_ret,      \* token: what the last get_token call did and returned
    tk_issued,   \* token: number of tokens the website has handed out
    tk_calls,    \* token: number of get_token calls made
    sh_store,    \* shared store: the registry file the instances were constructed over
    sh_inst,     \* shared store: per instance, whether it is constructed and its self.registry
    sh_log,      \* shared store: the register_model calls made, with what each returned
    cl_registry, \* cleaning: the winner registry document
    cl_trained,  \* cleaning: per model_id, the number of samples the model was trained on
    cl_last      \* cleaning: what the last clean_model_registry call saw and returned

regVars == <<kind, inst, registry, store, call, ret, overwrote, failures>>

optVars == <<opt_pc, runs, n_trials, trials, gp_x, best_params, best_score, best_model,
             results, retrains>>

refVars == <<ref_pc, ref_result, cycle, predictions_file, history_file, pred_at_start>>

vars == <<kind, inst, registry, store, call, ret, overwrote, failures,
          opt_pc, runs, n_trials, trials, gp_x, best_params, best_score, best_model,
          results, retrains,
          ref_pc, ref_result, cycle, predictions_file, history_file, pred_at_start,
          gen_pc, champions, loaded, score_model, matches, predictions, now, last_run,
          sp_match, sp_raw, sp_out, sp_trip,
          io_kind, disk, wr, rd, persisted, writes,
          instances, art_writes,
          fe_config, fe_stats, fe_matches, fe_mode, fe_calls, fe_result, fe_recent,
          tk_cache, tk_ret, tk_issued, tk_calls,
          sh_store, sh_inst, sh_log,
          cl_registry, cl_trained, cl_last>>

genVars == <<gen_pc, champions, loaded, score_model, matches, predictions, now, last_run>>

scoreVars == <<sp_match, sp_raw, sp_out, sp_trip>>

ioVars == <<io_kind, disk, wr, rd, persisted, writes>>

artVars == <<instances, art_writes>>

featVars == <<fe_config, fe_stats, fe_matches, fe_mode, fe_calls, fe_result, fe_recent>>

tokVars == <<tk_cache, tk_ret, tk_issued, tk_calls>>

sharedVars == <<sh_store, sh_inst, sh_log>>

cleanVars == <<cl_registry, cl_trained, cl_last>>

extVars == <<featVars, tokVars, sharedVars, cleanVars>>

----------------------------------------------------------------------------
(***************************************************************************)
(* ModelRegistry / ScoreModelRegistry                                      *)
(***************************************************************************)

\* {"models": [], "best_model_id": None}
EmptyRegistry == [hasModels |-> TRUE, models |-> <<>>, best_model_id |-> NoneId]

\* the dict {} : no "models" key, no "best_model_id" key
KeylessRegistry == [hasModels |-> FALSE, models |-> <<>>, best_model_id |-> NoneId]

Entry(id, s) == [model_id |-> id, score |-> s]

NoEntry == Entry(NoneId, Absent)

\* key=lambda m: m.get("accuracy", 0)  /  m.get("total_score_mae", float('inf'))
ScoreKey(k, m) ==
    IF k = "winner"
    THEN (IF m.score = Absent THEN 0 ELSE m.score)
    ELSE (IF m.score = Absent THEN Inf ELSE m.score)

\* BestIndex without the override of ScoreModelRegistry: max(...) for both kinds
BestIndex_AlwaysMax(k, models) ==
    CHOOSE i \in 1..Len(models) :
        /\ \A j \in 1..Len(models) : ScoreKey(k, models[j]) <= ScoreKey(k, models[i])
        /\ \A j \in 1..(i - 1) : ScoreKey(k, models[j]) # ScoreKey(k, models[i])

\* max(models, key=...) / min(models, key=...): the first entry whose key is extremal
BestIndex(k, models) ==
    CHOOSE i \in 1..Len(models) :
        /\ \A j \in 1..Len(models) :
              IF k = "winner"
              THEN ScoreKey(k, models[j]) <= ScoreKey(k, models[i])
              ELSE ScoreKey(k, models[j]) >= ScoreKey(k, models[i])
        /\ \A j \in 1..(i - 1) : ScoreKey(k, models[j]) # ScoreKey(k, models[i])

\* an update that keeps the designated best when no entry is left
update_best_model_KeepWhenEmpty(k, reg) ==
    IF reg.models = <<>>
    THEN reg
    ELSE [reg EXCEPT !.best_model_id = reg.models[BestIndex(k, reg.models)].model_id]

update_best_model(k, reg) ==
    IF reg.models = <<>>
    THEN [reg EXCEPT !.best_model_id = NoneId]
    ELSE [reg EXCEPT !.best_model_id = reg.models[BestIndex(k, reg.models)].model_id]

\* a lookup that never finds the model_id
IndexOf_Never(models, id) == 0

\* index of the first entry with this model_id, 0 when there is none
IndexOf(models, id) ==
    IF \E i \in 1..Len(models) : models[i].model_id = id
    THEN CHOOSE i \in 1..Len(models) :
            /\ models[i].model_id = id
            /\ \A j \in 1..(i - 1) : models[j].model_id # id
    ELSE 0

get_model_info(reg, id) ==
    IF IndexOf(reg.models, id) = 0 THEN NoEntry ELSE reg.models[IndexOf(reg.models, id)]

get_best_model_info(reg) ==
    IF reg.best_model_id = NoneId THEN NoEntry ELSE get_model_info(reg, reg.best_model_id)

list_models(reg) == IF reg.hasModels THEN reg.models ELSE <<>>

\* json.dump of one entry: the members of the JSON object, in insertion order
EntryToJson(m) ==
    IF m.score = Absent
    THEN << <<"model_id", m.model_id>> >>
    ELSE << <<"model_id", m.model_id>>, <<"score", m.score>> >>

\* json.load of one entry
EntryFromJson(obj) ==
    Entry(obj[1][2], IF Len(obj) >= 2 THEN obj[2][2] ELSE Absent)

\* JsonDump writing the models only
JsonDump_NoBest(reg) ==
    [models |-> [i \in 1..Len(reg.models) |-> EntryToJson(reg.models[i])],
     best |-> NoneId]

\* json.dump(self.registry, f, indent=2)
JsonDump(reg) ==
    [models |-> [i \in 1..Len(reg.models) |-> EntryToJson(reg.models[i])],
     best |-> reg.best_model_id]

\* json.load(f) of a well-formed registry document
JsonLoad(doc) ==
    [hasModels |-> TRUE,
     models |-> [i \in 1..Len(doc.models) |-> EntryFromJson(doc.models[i])],
     best_model_id |-> doc.best]

NoDoc == [models |-> <<>>, best |-> NoneId]

\* states of the registry file: no file; a file that cannot be opened; a file
\* that is not JSON (also a half-written one); JSON that is not an object;
\* the object {}; a registry document
File(state, doc) == [state |-> state, doc |-> doc]

FileStates == {"missing", "unreadable", "corrupt", "nondict", "emptydict", "doc"}

\* _load_registry raises: open() fails, or registry.get on a non-dict
load_raises(f) == f.state \in {"unreadable", "nondict"}

load_registry(f) ==
    CASE f.state = "missing" -> EmptyRegistry
      [] f.state = "corrupt" -> EmptyRegistry
      [] f.state = "emptydict" -> KeylessRegistry
      [] f.state = "doc" -> JsonLoad(f.doc)
      [] OTHER -> EmptyRegistry

\* save_registry: the file after the call, and the value returned
save_registry_file(reg, f, io) ==
    CASE io = "ok" -> File("doc", JsonDump(reg))
      [] io = "open_fail" -> f
      [] OTHER -> File("corrupt", NoDoc)

save_registry_ret(io) == IF io = "ok" THEN "True" ELSE "False"

\* the outcomes a write may have: it may fail while failures are left
CanWrite(io) == io = "ok" \/ failures < MaxWriteFailures

Failed(io) == IF io = "ok" THEN failures ELSE failures + 1

\* ModelRegistry.__init__
Construct ==
    /\ call' = "construct"
    /\ IF load_raises(store)
       THEN /\ inst' = "none"
            /\ registry' = EmptyRegistry
            /\ ret' = "raised"
       ELSE /\ inst' = "live"
            /\ registry' = load_registry(store)
            /\ ret' = "None"
    /\ UNCHANGED <<kind, store, overwrote, failures>>
    /\ UNCHANGED <<optVars, refVars, genVars, scoreVars, ioVars, artVars, extVars>>

register_model(id, s, io) ==
    /\ inst = "live"
    /\ CanWrite(io)
    /\ IF id = NoneId
       THEN /\ io = "ok"
            /\ call' = "register"
            /\ ret' = "False"
            /\ UNCHANGED <<registry, store, overwrote, failures>>
       ELSE IF ~registry.hasModels
       THEN /\ io = "ok"
            /\ call' = "register"
            /\ ret' = "raised"
            /\ UNCHANGED <<registry, store, overwrote, failures>>
       ELSE IF IndexOf(registry.models, id) # 0
       THEN /\ registry' = [registry EXCEPT
                               !.models[IndexOf(registry.models, id)] = Entry(id, s)]
            /\ store' = save_registry_file(registry', store, io)
            /\ call' = "register"
            /\ ret' = save_registry_ret(io)
            /\ overwrote' = TRUE
            /\ failures' = Failed(io)
       ELSE /\ registry' = update_best_model(kind,
                               [registry EXCEPT !.models = Append(@, Entry(id, s))])
            /\ store' = save_registry_file(registry', store, io)
            /\ call' = "register"
            /\ ret' = save_registry_ret(io)
            /\ failures' = Failed(io)
            /\ UNCHANGED overwrote
    /\ UNCHANGED <<kind, inst>>
    /\ UNCHANGED <<optVars, refVars, genVars, scoreVars, ioVars, artVars, extVars>>

\* a filter that also drops the entries with a smaller model_id
RemoveId_UpTo(models, id) == SelectSeq(models, LAMBDA m : m.model_id > id)

\* [m for m in models if m.get("model_id") != model_id]
RemoveId(models, id) == SelectSeq(models, LAMBDA m : m.model_id # id)

remove_model(id, io) ==
    /\ inst = "live"
    /\ CanWrite(io)
    /\ LET kept == RemoveId(list_models(registry), id)
           reg1 == [registry EXCEPT !.hasModels = TRUE, !.models = kept]
       IN IF Len(kept) < Len(list_models(registry))
          THEN /\ registry' = IF registry.best_model_id = id
                              THEN update_best_model(kind, reg1)
                              ELSE reg1
               /\ store' = save_registry_file(registry', store, io)
               /\ call' = "remove"
               /\ ret' = save_registry_ret(io)
               /\ failures' = Failed(io)
          ELSE /\ io = "ok"
               /\ registry' = reg1
               /\ call' = "remove"
               /\ ret' = "False"
               /\ UNCHANGED <<store, failures>>
    /\ UNCHANGED <<kind, inst, overwrote>>
    /\ UNCHANGED <<optVars, refVars, genVars, scoreVars, ioVars, artVars, extVars>>

InitRegistry ==
    /\ kind \in Kinds
    /\ inst = "none"
    /\ registry = EmptyRegistry
    /\ store \in {File(st, NoDoc) : st \in FileStates \ {"doc"}}
    /\ call = "none"
    /\ ret = "None"
    /\ overwrote = FALSE
    /\ failures = 0

\* the registry while another subsystem is looked at
IdleRegistry ==
    /\ kind = "winner"
    /\ inst = "none"
    /\ registry = EmptyRegistry
    /\ store = File("missing", NoDoc)
    /\ call = "none"
    /\ ret = "None"
    /\ overwrote = FALSE
    /\ failures = 0

----------------------------------------------------------------------------
(***************************************************************************)
(* BaseTuner / BayesianOptimizer                                           *)
(***************************************************************************)

\* values of best_score: None, float('-inf'), and the oriented scores
NoScore == -2
NegInf == -1
OScores == 0..MaxOScore

\* parameter assignments of the search space; NoParams is None
NoParams == 0
Params == 1..NumParams

\* a trained model: the assignment it was built with and its oriented score
Model(p, s) == [params |-> p, score |-> s]

NoModel == Model(NoParams, NoScore)

TrialOutcomes == {"init_fail", "train_fail", "trained"}

\* "score < self.best_score"
IsBetter_Less(s, b) == b = NoScore \/ s < b

\* "self.best_score is None or score > self.best_score"
IsBetter(s, b) == b = NoScore \/ s > b

RECURSIVE MaxOf(_)
\* -result.fun: the largest oriented score of the trials (objective = -score)
MaxOf(seq) ==
    IF seq = <<>> THEN NegInf
    ELSE LET m == MaxOf(Tail(seq)) IN IF Head(seq) >= m THEN Head(seq) ELSE m

\* BayesianOptimizer.optimize, up to the call of gp_minimize
optimize_start(n) ==
    /\ opt_pc \in {"idle", "returned", "trial_raised", "retrain_raised"}
    /\ runs < MaxRuns
    /\ opt_pc' = "searching"
    /\ runs' = runs + 1
    /\ n_trials' = n
    /\ trials' = <<>>
    /\ gp_x' = NoParams
    /\ retrains' = 0
    /\ UNCHANGED <<best_params, best_score, best_model, results>>
    /\ UNCHANGED <<regVars, refVars, genVars, scoreVars, ioVars, artVars, extVars>>

\* one call of objective() by gp_minimize: _evaluate_params(params, ...)
evaluate_params(p, outcome, s) ==
    /\ opt_pc = "searching"
    /\ Len(trials) < n_trials
    /\ CASE outcome = "init_fail" ->
              \* self.model_class(**params) is outside the try: the exception
              \* leaves _evaluate_params, objective, gp_minimize and optimize
              /\ s = 0
              /\ opt_pc' = "trial_raised"
              /\ UNCHANGED <<trials, gp_x, best_params, best_score, best_model, results>>
         [] outcome = "train_fail" ->
              /\ s = 0
              /\ trials' = Append(trials, NegInf)
              /\ gp_x' = IF trials = <<>> THEN p ELSE gp_x
              /\ UNCHANGED <<opt_pc, best_params, best_score, best_model, results>>
         [] OTHER ->
              /\ trials' = Append(trials, s)
              /\ gp_x' = IF trials = <<>> \/ s > MaxOf(trials) THEN p ELSE gp_x
              /\ results' = results + 1
              /\ IF IsBetter(s, best_score)
                 THEN /\ best_params' = p
                      /\ best_score' = s
                      /\ best_model' = Model(p, s)
                 ELSE UNCHANGED <<best_params, best_score, best_model>>
              /\ UNCHANGED opt_pc
    /\ UNCHANGED <<runs, n_trials, retrains>>
    /\ UNCHANGED <<regVars, refVars, genVars, scoreVars, ioVars, artVars, extVars>>

\* a test that never asks for the training after the search
NeedsRetrain_Never(bm) == FALSE

\* "if self.best_model is None"
NeedsRetrain(bm) == bm = NoModel

\* BayesianOptimizer.optimize, after gp_minimize returned
optimize_finish(outcome, s) ==
    /\ opt_pc = "searching"
    /\ Len(trials) = n_trials
    /\ best_params' = gp_x
    /\ best_score' = MaxOf(trials)
    /\ IF NeedsRetrain(best_model)
       THEN /\ retrains' = retrains + 1
            /\ IF outcome = "trained"
               THEN /\ best_model' = Model(gp_x, s)
                    /\ opt_pc' = "returned"
               ELSE /\ s = 0
                    /\ opt_pc' = "retrain_raised"
                    /\ UNCHANGED best_model
       ELSE /\ outcome = "trained" /\ s = 0
            /\ opt_pc' = "returned"
            /\ UNCHANGED <<best_model, retrains>>
    /\ UNCHANGED <<runs, n_trials, trials, gp_x, results>>
    /\ UNCHANGED <<regVars, refVars, genVars, scoreVars, ioVars, artVars, extVars>>

InitOptimizer ==
    /\ opt_pc = "idle"
    /\ runs = 0
    /\ n_trials = 0
    /\ trials = <<>>
    /\ gp_x = NoParams
    /\ best_params = NoParams
    /\ best_score = NoScore
    /\ best_model = NoModel
    /\ results = 0
    /\ retrains = 0

----------------------------------------------------------------------------
(***************************************************************************)
(* RefreshService: refresh_data, refresh_predictions and                   *)
(* _update_prediction_history                                              *)
(***************************************************************************)

\* PREDICTIONS_FILE: no file, the complete batch of a cycle, or the beginning
\* of the batch of a cycle (json.dump failed after open(..., 'w') truncated it)
PredFile(state, c) == [state |-> state, batch |-> c]

\* PREDICTION_HISTORY_FILE: no file, a list of saved predictions (one item
\* stands for the timestamped copies of one batch), or a truncated file
HistFile(state, items) == [state |-> state, items |-> items]

\* the stages of one cycle, in the order the code runs them
Stages == <<"get_token", "fetch_match_history", "calculate_player_stats",
            "fetch_upcoming_matches", "load_from_file", "load_models",
            "generate", "save_predictions", "update_history">>

\* refresh_predictions() of the module: a cycle starts
refresh_start ==
    /\ ref_pc = "Idle"
    /\ cycle < MaxCycles
    /\ cycle' = cycle + 1
    /\ ref_pc' = Stages[1]
    /\ ref_result' = "none"
    /\ pred_at_start' = predictions_file
    /\ UNCHANGED <<predictions_file, history_file>>
    /\ UNCHANGED <<regVars, optVars, genVars, scoreVars, ioVars, artVars, extVars>>

\* a stage that writes neither store: it succeeds and the next stage starts,
\* or it fails ("return False", or an exception caught by the try of the
\* method) and the cycle ends
StageStep(i, ok) ==
    /\ ref_pc = Stages[i]
    /\ IF ok
       THEN /\ ref_pc' = Stages[i + 1]
            /\ UNCHANGED ref_result
       ELSE /\ ref_pc' = "Idle"
            /\ ref_result' = "False"
    /\ UNCHANGED <<cycle, predictions_file, history_file, pred_at_start>>
    /\ UNCHANGED <<regVars, optVars, genVars, scoreVars, ioVars, artVars, extVars>>

\* refresh_data: self.token_fetcher.get_token()
get_token(ok) ==
    /\ ref_pc = "get_token"
    /\ StageStep(1, ok)

\* refresh_data: self.match_history_fetcher.fetch_match_history()
fetch_match_history(ok) ==
    /\ ref_pc = "fetch_match_history"
    /\ StageStep(2, ok)

\* refresh_data: self.player_stats_processor.calculate_player_stats(matches)
calculate_player_stats(ok) ==
    /\ ref_pc = "calculate_player_stats"
    /\ StageStep(3, ok)

\* refresh_data: self.upcoming_matches_fetcher.fetch_upcoming_matches()
fetch_upcoming_matches(ok) ==
    /\ ref_pc = "fetch_upcoming_matches"
    /\ StageStep(4, ok)

\* refresh_predictions: player statistics and upcoming matches from their files
load_from_file(ok) ==
    /\ ref_pc = "load_from_file"
    /\ StageStep(5, ok)

\* refresh_predictions: the champions of both registries and their artifacts
load_models(ok) ==
    /\ ref_pc = "load_models"
    /\ StageStep(6, ok)

\* refresh_predictions: the loop over upcoming_matches (a predict that raises
\* ends the cycle through the except of the method)
generate(ok) ==
    /\ ref_pc = "generate"
    /\ StageStep(7, ok)

\* refresh_predictions: open(PREDICTIONS_FILE, 'w') and json.dump(predictions)
save_predictions(io) ==
    /\ ref_pc = "save_predictions"
    /\ CASE io = "ok" ->
              /\ predictions_file' = PredFile("batch", cycle)
              /\ ref_pc' = "update_history"
              /\ UNCHANGED ref_result
         [] io = "open_fail" ->
              /\ ref_pc' = "Idle"
              /\ ref_result' = "False"
              /\ UNCHANGED predictions_file
         [] OTHER ->
              /\ predictions_file' = PredFile("partial", cycle)
              /\ ref_pc' = "Idle"
              /\ ref_result' = "False"
    /\ UNCHANGED <<cycle, history_file, pred_at_start>>
    /\ UNCHANGED <<regVars, optVars, genVars, scoreVars, ioVars, artVars, extVars>>

\* the history _update_prediction_history starts from: [] when there is no
\* file and when the file does not parse
history_read(h) == IF h.state = "list" THEN h.items ELSE <<>>

\* refresh_predictions: self._update_prediction_history(predictions), return True
update_history(io) ==
    /\ ref_pc = "update_history"
    /\ ref_pc' = "Idle"
    /\ CASE io = "ok" ->
              /\ history_file' = HistFile("list", Append(history_read(history_file), cycle))
              /\ ref_result' = "True"
         [] io = "open_fail" ->
              /\ ref_result' = "False"
              /\ UNCHANGED history_file
         [] OTHER ->
              /\ history_file' = HistFile("corrupt", <<>>)
              /\ ref_result' = "False"
    /\ UNCHANGED <<cycle, predictions_file, pred_at_start>>
    /\ UNCHANGED <<regVars, optVars, genVars, scoreVars, ioVars, artVars, extVars>>

InitRefresh ==
    /\ ref_pc = "Idle"
    /\ ref_result = "none"
    /\ cycle = 0
    /\ predictions_file = PredFile("missing", 0)
    /\ history_file = HistFile("missing", <<>>)
    /\ pred_at_start = PredFile("missing", 0)

----------------------------------------------------------------------------
(***************************************************************************)
(* WinnerPredictionModel.predict, ScorePredictionModel.predict and         *)
(* PredictionService.generate_predictions                                  *)
(***************************************************************************)

\* an upcoming match: whether both of its players are in player_stats, and
\* whether the record carries its homeTeam/awayTeam (match['homeTeam']['id'])
Match(known, teams) == [players_known |-> known, has_teams |-> teams]

MatchSet == {Match(k, t) : k \in BOOLEAN, t \in BOOLEAN}

Batches == UNION {[1..n -> MatchSet] : n \in 0..MaxBatch}

\* a ScorePredictionModel: whether self.home_model/self.away_model are fitted
\* and whether the estimators held by the dict self.model are
ScoreModel(attrs, dict) == [home_model_fitted |-> attrs, model_fitted |-> dict]

\* ScorePredictionModel() : _create_models builds new, unfitted estimators
NewScoreModel == ScoreModel(FALSE, FALSE)

\* BaseModel.load for cls = ScorePredictionModel: instance = cls() and
\* instance.model = model_obj; home_model and away_model stay those of cls()
LoadScoreModel(pickled) == [NewScoreModel EXCEPT !.model_fitted = pickled]

Raised == [status |-> "raised"]

WinnerPrediction(ph, pa, w, c) ==
    [status |-> "ok", home_win_probability |-> ph, away_win_probability |-> pa,
     predicted_winner |-> w, confidence |-> c]

\* WinnerPredictionModel.predict; probabilities in percent; draw is the outcome
\* of np.random.random() > 0.5
winner_predict(m, draw) ==
    IF ~m.players_known THEN WinnerPrediction(50, 50, draw, 50)
    ELSE IF ~m.has_teams THEN Raised
    ELSE WinnerPrediction(70, 30, "home", 70)

ScorePrediction(h, a) ==
    [status |-> "ok", home_score |-> h, away_score |-> a,
     total_score |-> h + a, score_diff |-> h - a]

\* an output of a regressor is the fraction n / RawUnit
RawOutputs == (0 - MaxRaw)..MaxRaw

\* round(x) of Python for x = n / RawUnit: the nearest integer, a tie going
\* to the even one
PyRound(n) ==
    LET f == n \div RawUnit
        r == n % RawUnit
    IN IF 2 * r < RawUnit THEN f
       ELSE IF 2 * r > RawUnit THEN f + 1
       ELSE IF f % 2 = 0 THEN f ELSE f + 1

\* the rounded score passed on as it is
Clamp_Identity(x) == x

\* max(0, score)
Clamp(x) == IF x < 0 THEN 0 ELSE x

\* the end of ScorePredictionModel.predict: round, clamp, total and difference
scores_from_outputs(hq, aq) ==
    LET home_score == Clamp(PyRound(hq))
        away_score == Clamp(PyRound(aq))
    IN [status |-> "ok", home_score |-> home_score, away_score |-> away_score,
        total_score |-> home_score + away_score,
        score_diff |-> home_score - away_score]

\* ScorePredictionModel.predict when the regressors return hq and aq
score_predict_raw(model, m, hq, aq) ==
    IF ~m.players_known THEN ScorePrediction(60, 60)
    ELSE IF ~m.has_teams THEN Raised
    ELSE IF ~model.home_model_fitted THEN Raised
    ELSE scores_from_outputs(hq, aq)

\* ScorePredictionModel.predict with regressors that return 62.0 and 58.0
score_predict(model, m) == score_predict_raw(model, m, 62 * RawUnit, 58 * RawUnit)

\* a ScorePredictionModel after train(): home_model and away_model are fitted
TrainedScoreModel == ScoreModel(TRUE, TRUE)

\* one call of predict on a trained ScorePredictionModel
score_model_predict(m, hq, aq) ==
    /\ sp_match' = m
    /\ sp_raw' = <<hq, aq>>
    /\ sp_out' = score_predict_raw(TrainedScoreModel, m, hq, aq)
    /\ UNCHANGED sp_trip
    /\ UNCHANGED <<regVars, optVars, refVars, genVars, ioVars, artVars, extVars>>

\* BaseModel.save: pickle.dump(self.model, f), the dictionary that holds the
\* two estimators of the instance
pickle_dump(model) == model.model_fitted

\* train, predict, save, load, predict: the same match before the save and
\* after the load
save_load_predict(m) ==
    /\ sp_trip' = [done |-> TRUE, match |-> m,
                   before |-> score_predict(TrainedScoreModel, m),
                   after |-> score_predict(LoadScoreModel(pickle_dump(TrainedScoreModel)), m)]
    /\ UNCHANGED <<sp_match, sp_raw, sp_out>>
    /\ UNCHANGED <<regVars, optVars, refVars, genVars, ioVars, artVars, extVars>>

InitScore ==
    /\ sp_match = Match(TRUE, TRUE)
    /\ sp_raw = <<0, 0>>
    /\ sp_out = Raised
    /\ sp_trip = [done |-> FALSE, match |-> Match(TRUE, TRUE), before |-> Raised, after |-> Raised]

\* dt.strftime("%Y-%m-%d %H:%M:%S"): the clock cut to whole seconds
format_datetime(t) == t \div TicksPerSecond

\* a call of generate_predictions that ran its loop to the end
Run(valid, batch, preds) == [valid |-> valid, matches |-> batch, predictions |-> preds]

\* time passes
tick ==
    /\ now < MaxClock
    /\ now' = now + 1
    /\ UNCHANGED <<gen_pc, champions, loaded, score_model, matches, predictions, last_run>>
    /\ UNCHANGED <<regVars, optVars, refVars, scoreVars, ioVars, artVars, extVars>>

\* generate_predictions up to the loop: the champions and their artifacts
generate_start(batch, champs) ==
    /\ gen_pc \in {"idle", "returned", "raised"}
    /\ matches' = batch
    /\ champions' = champs
    /\ predictions' = <<>>
    /\ CASE champs = "no_winner" ->
              /\ loaded' = {}
              /\ gen_pc' = "returned"
              /\ UNCHANGED score_model
         [] champs = "no_score" ->
              /\ loaded' = {"winner"}
              /\ gen_pc' = "returned"
              /\ UNCHANGED score_model
         [] OTHER ->
              /\ loaded' = {"winner", "score"}
              /\ score_model' = LoadScoreModel(TRUE)
              /\ gen_pc' = "predicting"
    /\ UNCHANGED <<now, last_run>>
    /\ UNCHANGED <<regVars, optVars, refVars, scoreVars, ioVars, artVars, extVars>>

\* one iteration of "for match in upcoming_matches"
predict_match(draw) ==
    /\ gen_pc = "predicting"
    /\ Len(predictions) < Len(matches)
    /\ LET m == matches[Len(predictions) + 1]
           w == winner_predict(m, draw)
           sc == score_predict(score_model, m)
       IN /\ (m.players_known => draw = "home")
          /\ IF w.status = "raised" \/ sc.status = "raised"
             THEN /\ gen_pc' = "raised"
                  /\ UNCHANGED predictions
             ELSE /\ predictions' = Append(predictions,
                        [fixtureId |-> Len(predictions) + 1,
                         prediction |-> w, score_prediction |-> sc,
                         generated_at |-> format_datetime(now)])
                  /\ UNCHANGED gen_pc
    /\ UNCHANGED <<champions, loaded, score_model, matches, now, last_run>>
    /\ UNCHANGED <<regVars, optVars, refVars, scoreVars, ioVars, artVars, extVars>>

\* "return predictions"
generate_return ==
    /\ gen_pc = "predicting"
    /\ Len(predictions) = Len(matches)
    /\ gen_pc' = "returned"
    /\ last_run' = Run(TRUE, matches, predictions)
    /\ UNCHANGED <<champions, loaded, score_model, matches, predictions, now>>
    /\ UNCHANGED <<regVars, optVars, refVars, scoreVars, ioVars, artVars, extVars>>

InitGenerate ==
    /\ gen_pc = "idle"
    /\ champions = "both"
    /\ loaded = {}
    /\ score_model = NewScoreModel
    /\ matches = <<>>
    /\ predictions = <<>>
    /\ now = 0
    /\ last_run = Run(FALSE, <<>>, <<>>)

----------------------------------------------------------------------------
(***************************************************************************)
(* The JSON files and their readers: a writer truncates the file with      *)
(* open(..., 'w') and json.dump then writes the document piece by piece;   *)
(* a reader reads what the file holds at that moment and parses it.        *)
(***************************************************************************)

FileKinds == {"predictions", "history", "registry"}

\* a piece of a JSON document: an opening or closing bracket, or a member
Tok(t, v) == [t |-> t, v |-> v]

\* json.dump of a list with these members
json_dump_list(items) ==
    <<Tok("[", 0)>> \o [i \in 1..Len(items) |-> Tok("item", items[i])] \o <<Tok("]", 0)>>

\* json.dump of the registry dict
json_dump_dict(payload) == <<Tok("{", 0), Tok("item", payload), Tok("}", 0)>>

ParseError == [ok |-> FALSE, type |-> "none", items |-> <<>>]

\* a parser that takes an unterminated document for what it holds so far
json_load_Lenient(tokens) ==
    IF Len(tokens) >= 1 /\ tokens[1].t \in {"[", "{"}
    THEN [ok |-> TRUE,
          type |-> IF tokens[1].t = "[" THEN "list" ELSE "dict",
          items |-> [i \in 1..Len(SelectSeq(Tail(tokens), LAMBDA x : x.t = "item")) |->
                        SelectSeq(Tail(tokens), LAMBDA x : x.t = "item")[i].v]]
    ELSE ParseError

\* json.load: a document parses only when it is complete
json_load(tokens) ==
    IF /\ Len(tokens) >= 2
       /\ \/ tokens[1].t = "[" /\ tokens[Len(tokens)].t = "]"
          \/ tokens[1].t = "{" /\ tokens[Len(tokens)].t = "}"
       /\ \A i \in 2..(Len(tokens) - 1) : tokens[i].t = "item"
    THEN [ok |-> TRUE,
          type |-> IF tokens[1].t = "[" THEN "list" ELSE "dict",
          items |-> [i \in 1..(Len(tokens) - 2) |-> tokens[i + 1].v]]
    ELSE ParseError

Disk(exists, tokens) == [exists |-> exists, tokens |-> tokens]

\* get_predictions / get_prediction_history of PredictionService and of the
\* API: [] when there is no file and when anything raises, else the list
read_list(d) ==
    IF ~d.exists THEN <<>>
    ELSE IF json_load(d.tokens).ok /\ json_load(d.tokens).type = "list"
         THEN json_load(d.tokens).items
         ELSE <<>>

\* the registry file as _load_registry finds it
StoreOf(d) ==
    IF ~d.exists THEN File("missing", NoDoc)
    ELSE IF ~json_load(d.tokens).ok THEN File("corrupt", NoDoc)
    ELSE IF json_load(d.tokens).type = "dict" /\ Len(json_load(d.tokens).items) = 1
         THEN File("doc", json_load(d.tokens).items[1])
         ELSE File("nondict", NoDoc)

\* ModelRegistry(...) over the file: the registry of the new instance
read_registry(d) ==
    IF load_raises(StoreOf(d)) THEN [status |-> "raised", registry |-> EmptyRegistry]
    ELSE [status |-> "ok", registry |-> load_registry(StoreOf(d))]

NoWriter == [busy |-> FALSE, doc |-> <<>>]

\* the file holds a beginning of a document that is not all of it
HalfWritten == disk.exists /\ wr.doc # <<>> /\ Len(disk.tokens) < Len(wr.doc)

\* the document a persist writes: the batch of predictions, the history
\* extended by the batch, or the registry extended by an entry
NextDoc(c) ==
    CASE io_kind = "predictions" -> json_dump_list(<<c, c>>)
      [] io_kind = "history" -> json_dump_list(Append(read_list(disk), c))
      [] OTHER ->
           json_dump_dict(JsonDump(update_best_model("winner",
               [EmptyRegistry EXCEPT
                   !.models = Append(read_registry(disk).registry.models, Entry(c, 0))])))

\* the payload of a complete document
PayloadOf(doc) ==
    IF io_kind = "registry" THEN doc[2].v ELSE json_load(doc).items

\* open(file, 'w'): the file is created or truncated
write_open ==
    /\ ~wr.busy
    /\ writes < MaxWrites
    /\ writes' = writes + 1
    /\ wr' = [busy |-> TRUE, doc |-> NextDoc(writes + 1)]
    /\ disk' = Disk(TRUE, <<>>)
    /\ UNCHANGED <<io_kind, rd, persisted>>
    /\ UNCHANGED <<regVars, optVars, refVars, genVars, scoreVars, artVars, extVars>>

\* json.dump: the next piece reaches the file
write_chunk ==
    /\ wr.busy
    /\ Len(disk.tokens) < Len(wr.doc)
    /\ disk' = Disk(TRUE, Append(disk.tokens, wr.doc[Len(disk.tokens) + 1]))
    /\ persisted' = IF Len(disk'.tokens) = Len(wr.doc)
                    THEN persisted \cup {PayloadOf(wr.doc)}
                    ELSE persisted
    /\ UNCHANGED <<io_kind, wr, rd, writes>>
    /\ UNCHANGED <<regVars, optVars, refVars, genVars, scoreVars, artVars, extVars>>

\* the with block ends: after the whole document, or earlier when json.dump raised
write_close ==
    /\ wr.busy
    /\ wr' = [wr EXCEPT !.busy = FALSE]
    /\ UNCHANGED <<io_kind, disk, rd, persisted, writes>>
    /\ UNCHANGED <<regVars, optVars, refVars, genVars, scoreVars, artVars, extVars>>

Read(partial, status, result) == [done |-> TRUE, partial |-> partial, status |-> status, result |-> result]

\* PredictionService.get_predictions and GET /api/predictions
get_predictions ==
    /\ io_kind = "predictions"
    /\ rd' = Read(HalfWritten, "ok", read_list(disk))
    /\ UNCHANGED <<io_kind, disk, wr, persisted, writes>>
    /\ UNCHANGED <<regVars, optVars, refVars, genVars, scoreVars, artVars, extVars>>

\* PredictionService.get_prediction_history and GET /api/prediction-history
get_prediction_history ==
    /\ io_kind = "history"
    /\ rd' = Read(HalfWritten, "ok", read_list(disk))
    /\ UNCHANGED <<io_kind, disk, wr, persisted, writes>>
    /\ UNCHANGED <<regVars, optVars, refVars, genVars, scoreVars, artVars, extVars>>

\* ModelRegistry(MODELS_DIR) while the registry file is being written
construct_registry ==
    /\ io_kind = "registry"
    /\ rd' = Read(HalfWritten, read_registry(disk).status, read_registry(disk).registry)
    /\ UNCHANGED <<io_kind, disk, wr, persisted, writes>>
    /\ UNCHANGED <<regVars, optVars, refVars, genVars, scoreVars, artVars, extVars>>

InitIO ==
    /\ io_kind = "predictions"
    /\ disk = Disk(FALSE, <<>>)
    /\ wr = NoWriter
    /\ rd = [done |-> FALSE, partial |-> FALSE, status |-> "ok", result |-> <<>>]
    /\ persisted = {}
    /\ writes = 0

InitFiles ==
    /\ io_kind \in FileKinds
    /\ disk = Disk(FALSE, <<>>)
    /\ wr = NoWriter
    /\ rd = [done |-> FALSE, partial |-> FALSE, status |-> "ok", result |-> <<>>]
    /\ persisted = {}
    /\ writes = 0

----------------------------------------------------------------------------
(***************************************************************************)
(* BaseModel: model ids and artifact files                                 *)
(***************************************************************************)

\* int(time.time()): the clock in whole seconds
time_time(t) == t \div TicksPerSecond

\* the artifact paths of a model: "<class>_<model_id>.pkl" and
\* "<class>_info_<model_id>.json" stand and fall together, so a path is the
\* pair of class and model_id
Paths == Kinds \X (0..time_time(MaxClock))

PathOf(inst_) == <<inst_.cls, inst_.model_id>>

\* BaseModel.__init__ with model_id=None: the id is the time of creation
create_model(cls) ==
    /\ Len(instances) < MaxInstances
    /\ instances' = Append(instances, [cls |-> cls, model_id |-> time_time(now)])
    /\ UNCHANGED art_writes
    /\ UNCHANGED <<gen_pc, champions, loaded, score_model, matches, predictions, now, last_run>>
    /\ UNCHANGED <<regVars, optVars, refVars, scoreVars, ioVars, extVars>>

\* BaseModel.save(): open(model_path, 'wb') and open(info_path, 'w')
save_writes(i) == art_writes[PathOf(instances[i])] + 1

save_model(i) ==
    /\ i \in 1..Len(instances)
    /\ \A q \in Paths : art_writes[q] < MaxSaves
    /\ art_writes' = [art_writes EXCEPT ![PathOf(instances[i])] = save_writes(i)]
    /\ UNCHANGED instances
    /\ UNCHANGED genVars
    /\ UNCHANGED <<regVars, optVars, refVars, scoreVars, ioVars, extVars>>

InitArtifacts ==
    /\ instances = <<>>
    /\ art_writes = [q \in Paths |-> 0]

----------------------------------------------------------------------------
(***************************************************************************)
(* Feature engineering (backend/core/models/feature_engineering.py).       *)
(*                                                                         *)
(* A match is the dictionary the fetcher builds: homePlayer and awayPlayer *)
(* are the two player ids, hasScore tells whether the keys homeScore and   *)
(* awayScore are there, and a score of PyNone is the value None.  date is  *)
(* the day of the 'date' key, Undated when the dictionary has neither      *)
(* 'date' nor 'startTime'.  A datetime is a number of ticks; a day has     *)
(* TicksPerDay of them.  A feature is the fraction <<numerator,            *)
(* denominator>>.  The ids of the matches of a list are their positions.   *)
(***************************************************************************)
PyNone == -1
Undated == -1
DaysPerWeek == 7

FeMatch(pair, has, hs, as, d) ==
    [id |-> 0, homePlayer |-> pair[1], awayPlayer |-> pair[2],
     homeTeam |-> 1, awayTeam |-> 2,
     hasScore |-> has, homeScore |-> hs, awayScore |-> as, date |-> d]

\* match_history.py builds every match with the keys homeScore and awayScore,
\* None for a match that has no result yet
transformed_match(pair, hs, as) == FeMatch(pair, TRUE, hs, as, Undated)

\* the lists of at most n matches of the given shapes
MatchLists(shapes, n) ==
    {[i \in 1..Len(s) |-> [s[i] EXCEPT !.id = i]] : s \in UNION {[1..k -> shapes] : k \in 0..n}}

Config(basic, team, h2h, recent, advanced, temporal, w) ==
    [use_basic_features |-> basic, use_team_features |-> team,
     use_h2h_features |-> h2h, use_recent_form |-> recent,
     use_advanced_features |-> advanced, use_temporal_features |-> temporal,
     recent_matches_window |-> w]

DefaultConfig(w) == Config(TRUE, TRUE, TRUE, TRUE, TRUE, TRUE, w)

Configs ==
    {Config(b[1], b[2], b[3], b[4], b[5], b[6], w) : b \in [1..6 -> BOOLEAN], w \in 1..MaxWindow}

RichStats ==
    [p \in {1, 2} |->
        [win_rate |-> 50, avg_score |-> 60, total_matches |-> 4,
         teams_used |-> [t \in {1, 2} |-> [win_rate |-> 40, avg_score |-> 55, matches |-> 2]],
         opponents_faced |->
            [q \in {1, 2} \ {p} |-> [win_rate |-> 30, matches |-> 2, total_score |-> 110]]]]

SparseStats ==
    [p \in {1, 2} |->
        [win_rate |-> 0, avg_score |-> 0, total_matches |-> 0,
         teams_used |-> <<>>, opponents_faced |-> <<>>]]

Num(x) == <<x, 1>>

FSub(x, y) == <<x[1] * y[2] - y[1] * x[2], x[2] * y[2]>>

RECURSIVE SumSeq(_)
SumSeq(s) == IF s = <<>> THEN 0 ELSE Head(s) + SumSeq(Tail(s))

np_var(scores) ==
    LET n == Len(scores)
        sq == [i \in 1..n |-> scores[i] * scores[i]]
    IN  <<n * SumSeq(sq) - SumSeq(scores) * SumSeq(scores), n * n>>

DayOf(t) == t \div TicksPerDay

\* datetime.now() read as t; strptime gives midnight of the day
parse_match_date(m, t) == IF m.date # Undated THEN m.date * TicksPerDay ELSE t

get_previous_matches(all_matches, current_match, current_date, t) ==
    SelectSeq(all_matches,
              LAMBDA m : /\ m.hasScore
                         /\ m # current_match
                         /\ parse_match_date(m, t) < current_date)

Involves(m, p) == m.homePlayer = p \/ m.awayPlayer = p

RECURSIVE InsertDesc(_, _, _)
InsertDesc(m, s, t) ==
    IF s = <<>> THEN <<m>>
    ELSE IF parse_match_date(Head(s), t) >= parse_match_date(m, t)
         THEN <<Head(s)>> \o InsertDesc(m, Tail(s), t)
         ELSE <<m>> \o s

\* list.sort(key=..., reverse=True): stable, most recent first
RECURSIVE SortByDateDesc(_, _)
SortByDateDesc(s, t) ==
    IF s = <<>> THEN <<>>
    ELSE InsertDesc(s[Len(s)], SortByDateDesc(SubSeq(s, 1, Len(s) - 1), t), t)

get_player_recent_matches(p, ms, w, t) ==
    LET player_matches == SortByDateDesc(SelectSeq(ms, LAMBDA m : Involves(m, p)), t)
    IN  SubSeq(player_matches, 1, IF Len(player_matches) < w THEN Len(player_matches) ELSE w)

\* a comparison or a sum with None raises TypeError
HasNone(ms) == \E i \in 1..Len(ms) : ms[i].homeScore = PyNone \/ ms[i].awayScore = PyNone

Won(m, p) ==
    \/ m.homePlayer = p /\ m.homeScore > m.awayScore
    \/ m.awayPlayer = p /\ m.awayScore > m.homeScore

ScoreOf(m, p) == IF m.homePlayer = p THEN m.homeScore ELSE m.awayScore

calculate_recent_win_rate(p, recent) ==
    IF recent = <<>> THEN Num(0) ELSE <<Cardinality({i \in 1..Len(recent) : Won(recent[i], p)}), Len(recent)>>

calculate_recent_avg_score(p, recent) ==
    IF recent = <<>> THEN Num(0)
    ELSE <<SumSeq([i \in 1..Len(recent) |-> ScoreOf(recent[i], p)]), Len(recent)>>

calculate_recent_score_variance(p, recent) ==
    IF Len(recent) < 2 THEN Num(0)
    ELSE np_var([i \in 1..Len(recent) |-> ScoreOf(recent[i], p)])

calculate_momentum(p, recent) ==
    IF Len(recent) < 2 THEN Num(0)
    ELSE LET n == Len(recent)
             weight == [i \in 1..n |-> n - (i - 1)]
             weighted_wins == SumSeq([i \in 1..n |-> IF Won(recent[i], p) THEN weight[i] ELSE 0])
         IN  FSub(<<weighted_wins, SumSeq(weight)>>, calculate_recent_win_rate(p, recent))

calculate_home_advantage(ms) ==
    IF ms = <<>> THEN Num(0)
    ELSE <<Cardinality({i \in 1..Len(ms) : ms[i].homeScore > ms[i].awayScore}), Len(ms)>>

calculate_player_consistency(p, ms) ==
    LET player_matches == SelectSeq(ms, LAMBDA m : Involves(m, p))
        variance == np_var([i \in 1..Len(player_matches) |-> ScoreOf(player_matches[i], p)])
    IN  IF Len(player_matches) < 2 THEN Num(0)
        ELSE IF variance[1] = 0 THEN Num(1)
        ELSE IF variance[1] >= 100 * variance[2] THEN Num(0)
        ELSE <<100 * variance[2] - variance[1], 100 * variance[2]>>

\* _get_team_win_rate, _get_team_avg_score, _get_team_matches: the key of the
\* player's entry for the team, 0 without such an entry
get_team_stat(player, team, key) ==
    IF team \in DOMAIN player.teams_used THEN player.teams_used[team][key] ELSE 0

\* _get_h2h_win_rate, _get_h2h_matches
get_h2h_stat(player, opp, key) ==
    IF opp \in DOMAIN player.opponents_faced THEN player.opponents_faced[opp][key] ELSE 0

get_avg_score_against(player, opp) ==
    IF opp \in DOMAIN player.opponents_faced /\ player.opponents_faced[opp].matches > 0
    THEN <<player.opponents_faced[opp].total_score, player.opponents_faced[opp].matches>>
    ELSE Num(0)

extract_basic_features(hp, ap) ==
    <<Num(hp.win_rate), Num(ap.win_rate), Num(hp.avg_score), Num(ap.avg_score),
      Num(hp.total_matches), Num(ap.total_matches)>>

extract_team_features(hp, ap, ht, at) ==
    LET AtLeastOne(n) == IF n > 1 THEN n ELSE 1 IN
    <<Num(get_team_stat(hp, ht, "win_rate")), Num(get_team_stat(ap, at, "win_rate")),
      Num(get_team_stat(hp, ht, "avg_score")), Num(get_team_stat(ap, at, "avg_score")),
      Num(get_team_stat(hp, ht, "matches")), Num(get_team_stat(ap, at, "matches")),
      <<get_team_stat(hp, ht, "matches"), AtLeastOne(hp.total_matches)>>,
      <<get_team_stat(ap, at, "matches"), AtLeastOne(ap.total_matches)>>,
      Num(get_team_stat(hp, ht, "win_rate") - hp.win_rate),
      Num(get_team_stat(ap, at, "win_rate") - ap.win_rate),
      Num(get_team_stat(hp, ht, "avg_score") - hp.avg_score),
      Num(get_team_stat(ap, at, "avg_score") - ap.avg_score)>>

extract_h2h_features(hp, ap, h, a) ==
    <<Num(get_h2h_stat(hp, a, "win_rate")), Num(get_h2h_stat(ap, h, "win_rate")),
      Num(get_h2h_stat(hp, a, "matches")), Num(get_h2h_stat(ap, h, "matches")),
      get_avg_score_against(hp, a), get_avg_score_against(ap, h),
      Num(get_h2h_stat(hp, a, "win_rate") - get_h2h_stat(ap, h, "win_rate")),
      FSub(get_avg_score_against(hp, a), get_avg_score_against(ap, h))>>

\* the recent-form block left out for a match without history
RecentForm_WhenAny(h, a, hr, ar) ==
    IF hr = <<>> /\ ar = <<>> THEN <<>>
    ELSE <<calculate_recent_win_rate(h, hr), calculate_recent_win_rate(a, ar),
           calculate_recent_avg_score(h, hr), calculate_recent_avg_score(a, ar),
           calculate_recent_score_variance(h, hr), calculate_recent_score_variance(a, ar),
           calculate_momentum(h, hr), calculate_momentum(a, ar)>>

RecentForm(h, a, hr, ar) ==
    <<calculate_recent_win_rate(h, hr), calculate_recent_win_rate(a, ar),
      calculate_recent_avg_score(h, hr), calculate_recent_avg_score(a, ar),
      calculate_recent_score_variance(h, hr), calculate_recent_score_variance(a, ar),
      calculate_momentum(h, hr), calculate_momentum(a, ar)>>

extract_recent_form_features(h, a, prev, w, t) ==
    RecentForm(h, a, get_player_recent_matches(h, prev, w, t),
                     get_player_recent_matches(a, prev, w, t))

extract_advanced_features(hp, ap, ht, at, h, a, prev) ==
    <<Num(hp.win_rate - ap.win_rate), Num(hp.avg_score - ap.avg_score),
      Num(hp.total_matches - ap.total_matches),
      Num(get_team_stat(hp, ht, "win_rate") - get_team_stat(ap, at, "win_rate")),
      Num(get_team_stat(hp, ht, "avg_score") - get_team_stat(ap, at, "avg_score")),
      Num(get_team_stat(hp, ht, "matches") - get_team_stat(ap, at, "matches")),
      calculate_home_advantage(prev),
      calculate_player_consistency(h, prev), calculate_player_consistency(a, prev)>>

extract_temporal_features(match_date) ==
    LET day_of_week == DayOf(match_date) % DaysPerWeek
        month == 1 + ((DayOf(match_date) \div 30) % 12)
    IN  <<<<day_of_week, 6>>, <<month, 12>>, Num(IF day_of_week >= 5 THEN 1 ELSE 0)>>

Block(on, features) == IF on THEN features ELSE <<>>

\* One pass of the loop of extract_features over the match m.  t0 is the clock
\* read for the match itself, t1 the clock read for the other matches.
Row(stats, all_matches, m, mode, cfg, t0, t1) ==
    LET h == m.homePlayer
        a == m.awayPlayer
        skip == ~m.hasScore \/ h \notin DOMAIN stats \/ a \notin DOMAIN stats
        match_date == parse_match_date(m, t0)
        prev == get_previous_matches(all_matches, m, match_date, t1)
        hr == get_player_recent_matches(h, prev, cfg.recent_matches_window, t1)
        ar == get_player_recent_matches(a, prev, cfg.recent_matches_window, t1)
        raised == \/ cfg.use_recent_form /\ (HasNone(hr) \/ HasNone(ar))
                  \/ cfg.use_advanced_features /\ HasNone(prev)
                  \/ mode = "winner" /\ HasNone(<<m>>)
    IN  IF skip THEN [skip |-> TRUE, raised |-> FALSE]
        ELSE IF raised THEN [skip |-> FALSE, raised |-> TRUE]
        ELSE [skip |-> FALSE, raised |-> FALSE, id |-> m.id,
              vector |->
                 Block(cfg.use_basic_features, extract_basic_features(stats[h], stats[a]))
                 \o Block(cfg.use_team_features,
                          extract_team_features(stats[h], stats[a], m.homeTeam, m.awayTeam))
                 \o Block(cfg.use_h2h_features, extract_h2h_features(stats[h], stats[a], h, a))
                 \o Block(cfg.use_recent_form,
                          extract_recent_form_features(h, a, prev, cfg.recent_matches_window, t1))
                 \o Block(cfg.use_advanced_features,
                          extract_advanced_features(stats[h], stats[a], m.homeTeam,
                                                    m.awayTeam, h, a, prev))
                 \o Block(cfg.use_temporal_features, extract_temporal_features(match_date)),
              label |-> IF m.homeScore > m.awayScore THEN 1 ELSE 0,
              home_score |-> m.homeScore,
              away_score |-> m.awayScore,
              recent |-> <<[i \in 1..Len(hr) |-> hr[i].id], [i \in 1..Len(ar) |-> ar[i].id]>>]

NoResult ==
    [status |-> "none", features |-> <<>>, labels |-> <<>>, home_scores |-> <<>>,
     away_scores |-> <<>>]

Returned(rows, mode) ==
    [status |-> "returned",
     features |-> [i \in 1..Len(rows) |-> rows[i].vector],
     labels |-> IF mode = "winner" THEN [i \in 1..Len(rows) |-> rows[i].label] ELSE <<>>,
     home_scores |-> IF mode = "score" THEN [i \in 1..Len(rows) |-> rows[i].home_score] ELSE <<>>,
     away_scores |-> IF mode = "score" THEN [i \in 1..Len(rows) |-> rows[i].away_score] ELSE <<>>]

\* extract_features(player_stats, matches, for_score_prediction): the loop stops
\* at the first match that raises, and the call then returns nothing.
extract_features(t1) ==
    /\ fe_calls < MaxCalls
    /\ LET rows == [i \in 1..Len(fe_matches) |->
                       Row(fe_stats, fe_matches, fe_matches[i], fe_mode, fe_config, now, t1)]
           kept == SelectSeq(rows, LAMBDA r : ~r.skip)
       IN  IF \E i \in 1..Len(kept) : kept[i].raised
           THEN /\ fe_result' = [NoResult EXCEPT !.status = "raised"]
                /\ fe_recent' = <<>>
           ELSE /\ fe_result' = Returned(kept, fe_mode)
                /\ fe_recent' = [i \in 1..Len(kept) |->
                                    [id |-> kept[i].id, date |-> parse_match_date(fe_matches[kept[i].id], now),
                                     read |-> t1, windows |-> kept[i].recent]]
    /\ fe_calls' = fe_calls + 1
    /\ now' = t1
    /\ UNCHANGED <<fe_config, fe_stats, fe_matches, fe_mode>>
    /\ UNCHANGED <<gen_pc, champions, loaded, score_model, matches, predictions, last_run>>
    /\ UNCHANGED <<regVars, optVars, refVars, scoreVars, ioVars, artVars, tokVars, sharedVars, cleanVars>>

ClockReads == {t \in now..(now + 1) : t <= MaxClock}

LayoutShapes ==
    {FeMatch(<<1, 2>>, FALSE, PyNone, PyNone, Undated),
     transformed_match(<<1, 2>>, PyNone, PyNone),
     transformed_match(<<1, 2>>, 1, 0),
     transformed_match(<<1, 3>>, 1, 0),
     FeMatch(<<1, 2>>, TRUE, 0, 1, 0)}

HistoryShapes ==
    {FeMatch(pair, s[1], s[2], s[3], d) :
        pair \in {<<1, 2>>, <<1, 3>>},
        s \in {<<FALSE, PyNone, PyNone>>, <<TRUE, 1, 0>>, <<TRUE, 0, 1>>},
        d \in {Undated} \cup 0..MaxDay}

IdleFeatures ==
    /\ fe_config = DefaultConfig(1)
    /\ fe_stats = RichStats
    /\ fe_matches = <<>>
    /\ fe_mode = "winner"
    /\ fe_calls = 0
    /\ fe_result = NoResult
    /\ fe_recent = <<>>

InitLayout ==
    /\ fe_config \in {c \in Configs : c.recent_matches_window = MaxWindow}
    /\ fe_stats \in {RichStats, SparseStats}
    /\ fe_matches \in MatchLists(LayoutShapes, LayoutMatches)
    /\ fe_mode \in Kinds
    /\ fe_calls = 0
    /\ fe_result = NoResult
    /\ fe_recent = <<>>

InitFeatures ==
    /\ fe_config \in {DefaultConfig(w) : w \in 1..MaxWindow}
    /\ fe_stats = RichStats
    /\ fe_matches \in MatchLists(HistoryShapes, MaxMatches)
    /\ fe_mode = "winner"
    /\ fe_calls = 0
    /\ fe_result = NoResult
    /\ fe_recent = <<>>

----------------------------------------------------------------------------
(***************************************************************************)
(* Token cache (src/auth.py).  The cache file is missing, holds something  *)
(* json.load or the reading of its keys rejects, or holds the document     *)
(* _cache_token wrote.  Tokens are numbered in the order the website hands *)
(* them out.  TokenCacheDuration is TOKEN_CACHE_DURATION in ticks.         *)
(***************************************************************************)
NoToken == 0

MissingCache == [state |-> "missing", token |-> NoToken, expiry |-> [iso |-> 0]]

UnparsableCache == [state |-> "unparsable", token |-> NoToken, expiry |-> [iso |-> 0]]

\* datetime.isoformat and datetime.fromisoformat keep the whole datetime
isoformat(t) == [iso |-> t]

fromisoformat(s) == s.iso

CacheData(token, expiry_time) ==
    [state |-> "valid", token |-> token, expiry |-> isoformat(expiry_time)]

Expired_After(t, expiry_time) == t > expiry_time

Expired(t, expiry_time) == t >= expiry_time

get_cached_token(cache, t) ==
    IF cache.state # "valid" THEN NoToken
    ELSE IF Expired(t, fromisoformat(cache.expiry)) THEN NoToken
    ELSE cache.token

\* what the cache file holds after _cache_token, whose failures are logged only
cache_token(cache, token, t, io) ==
    CASE io = "ok" -> CacheData(token, t + TokenCacheDuration)
      [] io = "open_fail" -> cache
      [] io = "dump_fail" -> UnparsableCache

TokenReturn(outcome, token, force, contacted, site, io) ==
    [kind |-> outcome, token |-> token, force |-> force, contacted |-> contacted,
     site |-> site, io |-> io]

\* get_token(force_refresh); site tells whether _retrieve_token_from_website
\* returns a token or raises, io how the write of the cache file goes
get_token_call(force, site, io) ==
    /\ tk_calls < MaxTokenCalls
    /\ tk_calls' = tk_calls + 1
    /\ LET cached_token == get_cached_token(tk_cache, now)
       IN  IF ~force /\ cached_token # NoToken
           THEN /\ tk_ret' = TokenReturn("token", cached_token, force, 0, site, io)
                /\ UNCHANGED <<tk_cache, tk_issued>>
           ELSE IF site = "raises"
           THEN /\ tk_ret' = TokenReturn("AuthenticationError", NoToken, force, 1, site, io)
                /\ UNCHANGED <<tk_cache, tk_issued>>
           ELSE /\ tk_issued' = tk_issued + 1
                /\ tk_cache' = cache_token(tk_cache, tk_issued + 1, now, io)
                /\ tk_ret' = TokenReturn("token", tk_issued + 1, force, 1, site, io)
    /\ UNCHANGED genVars
    /\ UNCHANGED <<regVars, optVars, refVars, scoreVars, ioVars, artVars, featVars, sharedVars, cleanVars>>

\* the cache file is removed or damaged from outside
cache_lost(state) ==
    /\ tk_cache.state = "valid"
    /\ tk_cache' = IF state = "missing" THEN MissingCache ELSE UnparsableCache
    /\ UNCHANGED <<tk_ret, tk_issued, tk_calls>>
    /\ UNCHANGED genVars
    /\ UNCHANGED <<regVars, optVars, refVars, scoreVars, ioVars, artVars, featVars, sharedVars, cleanVars>>

InitToken ==
    /\ tk_cache = MissingCache
    /\ tk_ret = TokenReturn("none", NoToken, FALSE, 0, "token", "ok")
    /\ tk_issued = 0
    /\ tk_calls = 0

----------------------------------------------------------------------------
(***************************************************************************)
(* Several ModelRegistry instances over one registry file                  *)
(***************************************************************************)

NumWriters == 2

Writers == 1..NumWriters

MaxRegistrations == 3

\* register_model on a registry dict that has its "models" key: the dict after
\* the call (an entry with a listed model_id is overwritten in place, a new one
\* is appended and the best recomputed)
registered(k, reg, entry) ==
    IF IndexOf(reg.models, entry.model_id) # 0
    THEN [reg EXCEPT !.models[IndexOf(reg.models, entry.model_id)] = entry]
    ELSE update_best_model(k, [reg EXCEPT !.models = Append(@, entry)])

NotConstructed == [live |-> FALSE, registry |-> EmptyRegistry]

\* ModelRegistry.__init__ of instance w: self.registry = self._load_registry()
sh_construct(w) ==
    /\ ~load_raises(sh_store)
    /\ sh_inst' = [sh_inst EXCEPT ![w] = [live |-> TRUE, registry |-> load_registry(sh_store)]]
    /\ UNCHANGED <<sh_store, sh_log>>
    /\ UNCHANGED <<regVars, optVars, refVars, genVars, scoreVars, ioVars, artVars>>
    /\ UNCHANGED <<featVars, tokVars, cleanVars>>

\* instance w calls register_model: it changes its own self.registry and
\* save_registry writes that dict over the file
sh_register(w, id, s, io) ==
    /\ sh_inst[w].live
    /\ sh_inst[w].registry.hasModels
    /\ Len(sh_log) < MaxRegistrations
    /\ LET reg1 == registered(kind, sh_inst[w].registry, Entry(id, s))
       IN  /\ sh_inst' = [sh_inst EXCEPT ![w].registry = reg1]
           /\ sh_store' = save_registry_file(reg1, sh_store, io)
           /\ sh_log' = Append(sh_log, [who |-> w, model_id |-> id,
                                        ret |-> save_registry_ret(io)])
    /\ UNCHANGED <<regVars, optVars, refVars, genVars, scoreVars, ioVars, artVars>>
    /\ UNCHANGED <<featVars, tokVars, cleanVars>>

InitShared ==
    /\ sh_store = File("missing", NoDoc)
    /\ sh_inst = [w \in Writers |-> NotConstructed]
    /\ sh_log = <<>>

----------------------------------------------------------------------------
(***************************************************************************)
(* clean_model_registry                                                    *)
(***************************************************************************)

\* accuracies are multiples of 1 / MaxAccuracy: MaxAccuracy stands for 1.0
MaxAccuracy == 2

Accuracies == 0..MaxAccuracy

MaxSamples == 2

Samples == 0..MaxSamples

\* WinnerPredictionModel.get_info() after train(): accuracy and num_samples = len(X)
model_info(id, accuracy, n) == [model_id |-> id, score |-> accuracy, num_samples |-> n]

\* the dict add_model builds: model_id, model_path, info_path, accuracy, model_type
add_model_info(id, accuracy) == [model_id |-> id, score |-> accuracy, num_samples |-> Absent]

\* model.get("num_samples", 0)
num_samples(m) == IF m.num_samples = Absent THEN 0 ELSE m.num_samples

\* if num_samples < min_samples or accuracy == 1.0
problematic(m, min_samples) == num_samples(m) < min_samples \/ m.score = MaxAccuracy

\* ModelRegistry.remove_model on the registry dict: the dict after the call
removed(k, reg, id) ==
    LET kept == RemoveId(list_models(reg), id)
        reg1 == [reg EXCEPT !.hasModels = TRUE, !.models = kept]
    IN  IF Len(kept) < Len(list_models(reg))
        THEN (IF reg.best_model_id = id THEN update_best_model(k, reg1) ELSE reg1)
        ELSE reg

\* for model in problematic_models: registry.remove_model(model_id)
RECURSIVE remove_each(_, _, _)
remove_each(k, reg, ms) ==
    IF ms = <<>> THEN reg ELSE remove_each(k, removed(k, reg, Head(ms).model_id), Tail(ms))

\* no clean_model_registry call has returned since the last registration
NotCleaned == [done |-> FALSE, min_samples |-> 0, models |-> <<>>,
               removed_models |-> <<>>, remaining_models |-> <<>>]

\* the sample counts of the models listed, once the model id was trained on n samples
trained(counts, reg, id, n) ==
    [i \in ModelIds |-> IF i = id THEN n
                        ELSE IF IndexOf(list_models(reg), i) # 0 THEN counts[i] ELSE 0]

\* the training command: model.train(...), registry.register_model(model.get_info())
train_winner_model(id, accuracy, n) ==
    /\ cl_registry' = registered("winner", cl_registry, model_info(id, accuracy, n))
    /\ cl_trained' = trained(cl_trained, cl_registry, id, n)
    /\ cl_last' = NotCleaned
    /\ UNCHANGED <<regVars, optVars, refVars, genVars, scoreVars, ioVars, artVars>>
    /\ UNCHANGED <<featVars, tokVars, sharedVars>>

\* the optimization run: registry.add_model(model_id, model_path, info_path, best_score)
optimize_winner_model(id, accuracy, n) ==
    /\ cl_registry' = registered("winner", cl_registry, add_model_info(id, accuracy))
    /\ cl_trained' = trained(cl_trained, cl_registry, id, n)
    /\ cl_last' = NotCleaned
    /\ UNCHANGED <<regVars, optVars, refVars, genVars, scoreVars, ioVars, artVars>>
    /\ UNCHANGED <<featVars, tokVars, sharedVars>>

clean_model_registry(min_samples) ==
    /\ LET models == list_models(cl_registry)
           problematic_models == SelectSeq(models, LAMBDA m : problematic(m, min_samples))
       IN  /\ cl_registry' = remove_each("winner", cl_registry, problematic_models)
           /\ cl_last' = [done |-> TRUE, min_samples |-> min_samples, models |-> models,
                          removed_models |-> problematic_models,
                          remaining_models |-> list_models(cl_registry')]
    /\ UNCHANGED cl_trained
    /\ UNCHANGED <<regVars, optVars, refVars, genVars, scoreVars, ioVars, artVars>>
    /\ UNCHANGED <<featVars, tokVars, sharedVars>>

InitClean ==
    /\ cl_registry = EmptyRegistry
    /\ cl_trained = [id \in ModelIds |-> 0]
    /\ cl_last = NotCleaned

----------------------------------------------------------------------------
(***************************************************************************)
(* Specifications                                                          *)
(***************************************************************************)

Init == InitRegistry /\ InitOptimizer /\ InitRefresh /\ InitGenerate /\ InitScore /\ InitIO /\ InitArtifacts /\ IdleFeatures /\ InitToken /\ InitShared /\ InitClean

Next ==
    \/ Construct
    \/ \E id \in ModelIds \cup {NoneId}, s \in Scores, io \in IoOutcomes :
          register_model(id, s, io)
    \/ \E id \in ModelIds, io \in IoOutcomes : remove_model(id, io)

Spec == Init /\ [][Next]_vars

InitOpt == IdleRegistry /\ InitOptimizer /\ InitRefresh /\ InitGenerate /\ InitScore /\ InitIO /\ InitArtifacts /\ IdleFeatures /\ InitToken /\ InitShared /\ InitClean

NextOpt ==
    \/ \E n \in 1..MaxTrials : optimize_start(n)
    \/ \E p \in Params, o \in TrialOutcomes, s \in OScores : evaluate_params(p, o, s)
    \/ \E o \in TrialOutcomes, s \in OScores : optimize_finish(o, s)

SpecOptimizer == InitOpt /\ [][NextOpt]_vars

InitRef == IdleRegistry /\ InitOptimizer /\ InitRefresh /\ InitGenerate /\ InitScore /\ InitIO /\ InitArtifacts /\ IdleFeatures /\ InitToken /\ InitShared /\ InitClean

NextRef ==
    \/ refresh_start
    \/ \E ok \in BOOLEAN : get_token(ok)
    \/ \E ok \in BOOLEAN : fetch_match_history(ok)
    \/ \E ok \in BOOLEAN : calculate_player_stats(ok)
    \/ \E ok \in BOOLEAN : fetch_upcoming_matches(ok)
    \/ \E ok \in BOOLEAN : load_from_file(ok)
    \/ \E ok \in BOOLEAN : load_models(ok)
    \/ \E ok \in BOOLEAN : generate(ok)
    \/ \E io \in IoOutcomes : save_predictions(io)
    \/ \E io \in IoOutcomes : update_history(io)

SpecRefresh == InitRef /\ [][NextRef]_vars

InitGen == IdleRegistry /\ InitOptimizer /\ InitRefresh /\ InitGenerate /\ InitScore /\ InitIO /\ InitArtifacts /\ IdleFeatures /\ InitToken /\ InitShared /\ InitClean

NextGen ==
    \/ \E batch \in Batches, champs \in {"both", "no_winner", "no_score"} :
          generate_start(batch, champs)
    \/ \E draw \in {"home", "away"} : predict_match(draw)
    \/ generate_return
    \/ tick

SpecPredict == InitGen /\ [][NextGen]_vars

InitSc == IdleRegistry /\ InitOptimizer /\ InitRefresh /\ InitGenerate /\ InitScore /\ InitIO /\ InitArtifacts /\ IdleFeatures /\ InitToken /\ InitShared /\ InitClean

NextSc ==
    \/ \E m \in MatchSet, hq \in RawOutputs, aq \in RawOutputs : score_model_predict(m, hq, aq)
    \/ \E m \in MatchSet : save_load_predict(m)

SpecScore == InitSc /\ [][NextSc]_vars

InitRd == IdleRegistry /\ InitOptimizer /\ InitRefresh /\ InitGenerate /\ InitScore /\ InitFiles /\ InitArtifacts /\ IdleFeatures /\ InitToken /\ InitShared /\ InitClean

NextRd ==
    \/ write_open
    \/ write_chunk
    \/ write_close
    \/ get_predictions
    \/ get_prediction_history
    \/ construct_registry

SpecReaders == InitRd /\ [][NextRd]_vars

InitArt ==
    IdleRegistry /\ InitOptimizer /\ InitRefresh /\ InitGenerate /\ InitScore /\ InitIO /\ InitArtifacts /\ IdleFeatures /\ InitToken /\ InitShared /\ InitClean

NextArt ==
    \/ tick
    \/ \E cls \in Kinds : create_model(cls)
    \/ \E i \in 1..MaxInstances : save_model(i)

SpecArtifacts == InitArt /\ [][NextArt]_vars

InitLay ==
    IdleRegistry /\ InitOptimizer /\ InitRefresh /\ InitGenerate /\ InitScore /\ InitIO /\ InitArtifacts /\ InitLayout /\ InitToken /\ InitShared /\ InitClean

InitFeat ==
    IdleRegistry /\ InitOptimizer /\ InitRefresh /\ InitGenerate /\ InitScore /\ InitIO /\ InitArtifacts /\ InitFeatures /\ InitToken /\ InitShared /\ InitClean

NextFeat ==
    \/ tick
    \/ \E t1 \in ClockReads : extract_features(t1)

SpecLayout == InitLay /\ [][NextFeat]_vars

SpecFeatures == InitFeat /\ [][NextFeat]_vars

InitTok ==
    IdleRegistry /\ InitOptimizer /\ InitRefresh /\ InitGenerate /\ InitScore /\ InitIO /\ InitArtifacts /\ IdleFeatures /\ InitToken /\ InitShared /\ InitClean

NextTok ==
    \/ tick
    \/ \E force \in BOOLEAN, site \in {"token", "raises"}, io \in IoOutcomes :
          get_token_call(force, site, io)
    \/ \E state \in {"missing", "unparsable"} : cache_lost(state)

SpecToken == InitTok /\ [][NextTok]_vars

InitSh ==
    IdleRegistry /\ InitOptimizer /\ InitRefresh /\ InitGenerate /\ InitScore /\ InitIO /\ InitArtifacts /\ IdleFeatures /\ InitToken /\ InitShared /\ InitClean

NextSh ==
    \/ \E w \in Writers : sh_construct(w)
    \/ \E w \in Writers, id \in ModelIds, s \in Scores, io \in IoOutcomes :
          sh_register(w, id, s, io)

SpecShared == InitSh /\ [][NextSh]_vars

InitCl ==
    IdleRegistry /\ InitOptimizer /\ InitRefresh /\ InitGenerate /\ InitScore /\ InitIO /\ InitArtifacts /\ IdleFeatures /\ InitToken /\ InitShared /\ InitClean

NextCl ==
    \/ \E id \in ModelIds, a \in Accuracies, n \in Samples : train_winner_model(id, a, n)
    \/ \E id \in ModelIds, a \in Accuracies, n \in Samples : optimize_winner_model(id, a, n)
    \/ \E min_samples \in Samples : clean_model_registry(min_samples)

SpecClean == InitCl /\ [][NextCl]_vars

----------------------------------------------------------------------------
(***************************************************************************)
(* Properties of the registries                                            *)
(***************************************************************************)

RegisterInputs == (ModelIds \cup {NoneId}) \X Scores \X IoOutcomes

\* every listed entry carries a score and no two listed entries share one
DistinctScores(models) ==
    /\ \A i \in 1..Len(models) : models[i].score # Absent
    /\ \A i, j \in 1..Len(models) : i # j => models[i].score # models[j].score

\* m is strictly worse than b for a registry of kind k
Worse(k, m, b) ==
    IF k = "winner" THEN ScoreKey(k, m) < ScoreKey(k, b) ELSE ScoreKey(k, m) > ScoreKey(k, b)

IsListed(reg, m) == \E i \in 1..Len(list_models(reg)) : list_models(reg)[i] = m

\* get_best_model_info() is a listed entry and every other listed entry is worse
BestIsExtremal(k, reg) ==
    LET b == get_best_model_info(reg)
    IN /\ IsListed(reg, b)
       /\ \A i \in 1..Len(list_models(reg)) :
             list_models(reg)[i] # b => Worse(k, list_models(reg)[i], b)

\* C1: starting from an empty registry, after register_model calls that never
\* hit a listed model_id, interleaved with remove_model calls, and with
\* pairwise-distinct scores listed, get_best_model_info() is the listed entry
\* with the highest accuracy (winner registry) or the lowest total_score_mae
\* (score registry); on an empty registry it is None.
C1_BestIsExtremal ==
    (inst = "live" /\ ~overwrote /\ DistinctScores(list_models(registry))) =>
        IF list_models(registry) = <<>>
        THEN get_best_model_info(registry) = NoEntry
        ELSE BestIsExtremal(kind, registry)

\* two entries listed, the second one is the best, after a removal that was saved
C1_Witness ==
    /\ inst = "live" /\ ~overwrote
    /\ Len(registry.models) = 2
    /\ DistinctScores(registry.models)
    /\ get_best_model_info(registry) = registry.models[2]

\* the best designation is one of the best-scoring entries now listed
BestIsOptimal(k, reg) ==
    IF list_models(reg) = <<>>
    THEN reg.best_model_id = NoneId
    ELSE /\ IsListed(reg, get_best_model_info(reg))
         /\ \A i \in 1..Len(list_models(reg)) :
               ~Worse(k, get_best_model_info(reg), list_models(reg)[i])

\* C2: register_model with a model_id that is already listed overwrites that
\* entry and recomputes the best: right after the call best_model_id designates
\* the best-scoring entry among the entries now listed.
C2_OverwriteRecomputesBest ==
    [][\A arg \in RegisterInputs :
          (register_model(arg[1], arg[2], arg[3]) /\ IndexOf(registry.models, arg[1]) # 0)
             => /\ get_model_info(registry', arg[1]) = Entry(arg[1], arg[2])
                /\ BestIsOptimal(kind, registry')]_vars

\* C8: when the write of the registry file fails during register_model or
\* remove_model, the call returns False and list_models() and best_model_id
\* are the same as before the call.
C8_FailedWriteLeavesMemory ==
    [][\A arg \in RegisterInputs :
          ((register_model(arg[1], arg[2], arg[3]) \/ remove_model(arg[1], arg[3]))
               /\ arg[3] # "ok")
             => /\ ret' = "False"
                /\ list_models(registry') = list_models(registry)
                /\ registry'.best_model_id = registry.best_model_id]_vars

\* C9: constructing a registry over a missing store, or over a store that
\* cannot be read or holds no well-formed registry document, never raises and
\* yields an empty registry, and no later call on the instance raises.
C9_BadStoreIsEmptyRegistry ==
    /\ [](ret # "raised")
    /\ [][(Construct /\ store.state # "doc")
             => /\ list_models(registry') = <<>>
                /\ get_best_model_info(registry') = NoEntry]_vars

\* C10: after register_model(entry) returned True, a new instance constructed
\* over the same store returns from get_model_info(entry.model_id) an entry
\* equal to the registered one and has the best_model_id of the writing instance.
C10_RoundTrip ==
    [][(call' = "register" /\ ret' = "True") =>
          \A id \in ModelIds : \A s \in Scores :
             (/\ get_model_info(registry', id) = Entry(id, s)
              /\ register_model(id, s, "ok"))
                => /\ ~load_raises(store')
                   /\ get_model_info(load_registry(store'), id) = Entry(id, s)
                   /\ load_registry(store').best_model_id = registry'.best_model_id]_vars

\* a second entry was registered and saved
C10_Witness ==
    /\ call = "register" /\ ret = "True"
    /\ store.state = "doc"
    /\ Len(registry.models) = 2
    /\ registry.best_model_id # NoneId

----------------------------------------------------------------------------
(***************************************************************************)
(* Properties of the optimizer                                             *)
(***************************************************************************)

\* C3: a candidate that fails at instantiation or while training is scored
\* minus infinity and the loop continues: no failing trial ends the run, every
\* one of the N trials is evaluated and optimize() returns normally.
C3_BadTrialNeverAborts ==
    /\ [](opt_pc # "trial_raised")
    /\ [](opt_pc = "returned" => Len(trials) = n_trials)

\* a >= b for values of best_score, None being below every score
ScoreGeq(a, b) == b = NoScore \/ (a # NoScore /\ a >= b)

\* C4: during one optimize() run best_score never decreases from one trial to
\* the next, and when the run returns best_score is the maximum of the oriented
\* scores of all trials of that run, a failed trial counting as minus infinity.
C4_MonotoneChampion ==
    /\ [][(opt_pc = "searching" /\ opt_pc' = "searching")
             => ScoreGeq(best_score', best_score)]_vars
    /\ [](opt_pc = "returned" =>
             /\ \A i \in 1..Len(trials) : best_score >= trials[i]
             /\ \E i \in 1..Len(trials) : best_score = trials[i])

\* a run returned whose trials hold a failure and a score below an earlier one
C4_Witness ==
    /\ opt_pc = "returned"
    /\ Len(trials) = MaxTrials
    /\ \E i \in 1..Len(trials) : trials[i] = NegInf
    /\ \E i, j \in 1..Len(trials) : i < j /\ trials[j] # NegInf /\ trials[j] < trials[i]

----------------------------------------------------------------------------
(***************************************************************************)
(* Properties of the refresh cycle                                         *)
(***************************************************************************)

\* C5: if any stage of a refresh cycle fails (the cycle reports failure,
\* including a failure while updating the prediction history), the predictions
\* store holds exactly the content it held before the cycle started.
C5_FailedCycleKeepsPredictions ==
    (ref_pc = "Idle" /\ ref_result = "False") => predictions_file = pred_at_start

----------------------------------------------------------------------------
(***************************************************************************)
(* Properties of prediction generation                                     *)
(***************************************************************************)

\* C6: when feature extraction or inference raises for one match of a batch,
\* that match alone falls back to a heuristic prediction and every other match
\* is predicted normally: prediction generation returns exactly one prediction
\* per upcoming match and does not raise.
C6_PerMatchFallback ==
    /\ gen_pc # "raised"
    /\ (gen_pc = "returned" /\ champions = "both") => Len(predictions) = Len(matches)

\* the defaults both predict methods return for a match with an unknown player
IsDefaultPrediction(pr) ==
    /\ pr.prediction.confidence = 50
    /\ pr.prediction.home_win_probability = 50
    /\ pr.prediction.away_win_probability = 50
    /\ pr.score_prediction.home_score = 60
    /\ pr.score_prediction.away_score = 60

\* C7: for a match that references a player id absent from player_stats both
\* predict calls return the defaults (confidence 0.5, probabilities 0.5, scores
\* 60/60) without raising, and the batch still yields one prediction for that
\* match and for every other match.
C7_UnknownPlayerBatch ==
    (champions = "both" /\ \E i \in 1..Len(matches) : ~matches[i].players_known) =>
        /\ \A i \in 1..Len(predictions) :
              ~matches[i].players_known => IsDefaultPrediction(predictions[i])
        /\ gen_pc # "raised"
        /\ gen_pc = "returned" => Len(predictions) = Len(matches)

\* the part of C7 that concerns the match with the unknown player alone
UnknownPlayerDefaults ==
    \A i \in 1..Len(predictions) :
        ~matches[i].players_known => IsDefaultPrediction(predictions[i])

----------------------------------------------------------------------------
(***************************************************************************)
(* Further properties of the registries                                    *)
(***************************************************************************)

\* seq without its i-th element
Without(seq, i) == [j \in 1..(Len(seq) - 1) |-> IF j < i THEN seq[j] ELSE seq[j + 1]]

\* C11: remove_model(id) of a present entry (the write succeeding) deletes
\* exactly that entry and persists; if that entry was the designated best,
\* best_model_id is recomputed over the remaining entries (None when none
\* remain), otherwise best_model_id and all other entries stay unchanged;
\* remove_model of an id that is not present returns False and changes neither
\* the in-memory registry nor the store.
C11_RemoveFrame ==
    [][\A id \in ModelIds :
          (call' = "remove" /\ IndexOf(list_models(registry'), id) = 0
              /\ remove_model(id, "ok")) =>
             IF IndexOf(list_models(registry), id) # 0
             THEN /\ ret' = "True"
                  /\ list_models(registry') =
                        Without(list_models(registry), IndexOf(list_models(registry), id))
                  /\ ~load_raises(store')
                  /\ load_registry(store') = registry'
                  /\ IF registry.best_model_id = id
                     THEN BestIsOptimal(kind, registry')
                     ELSE registry'.best_model_id = registry.best_model_id
             ELSE /\ ret' = "False"
                  /\ list_models(registry') = list_models(registry)
                  /\ registry'.best_model_id = registry.best_model_id
                  /\ store' = store]_vars

\* the only entry, which was the best, was removed and the empty registry saved
C11_Witness ==
    /\ call = "remove" /\ ret = "True"
    /\ registry.models = <<>>
    /\ registry.best_model_id = NoneId
    /\ store = File("doc", JsonDump(EmptyRegistry))

\* no two entries share a model_id
UniqueIds(models) ==
    \A i, j \in 1..Len(models) : i # j => models[i].model_id # models[j].model_id

\* C12: after any sequence of register_model and remove_model calls starting
\* from an empty registry, no two entries of list_models() share a model_id;
\* registering an entry whose model_id is already present leaves the length of
\* list_models() and the position of every entry unchanged.
C12_UniqueIds ==
    [][/\ UniqueIds(list_models(registry'))
       /\ call' = "register" =>
            \A id \in ModelIds : IndexOf(registry.models, id) # 0 =>
               \A s \in Scores : get_model_info(registry', id) = Entry(id, s) =>
                  \A io \in IoOutcomes :
                     (ret' = save_registry_ret(io) /\ register_model(id, s, io))
                        => /\ Len(list_models(registry')) = Len(list_models(registry))
                           /\ \A i \in 1..Len(list_models(registry)) :
                                 list_models(registry')[i].model_id =
                                    list_models(registry)[i].model_id]_vars

\* a register_model call has just overwritten one of two listed entries: the
\* best designation it left is not the one an append would have computed
C12_Witness ==
    /\ call = "register" /\ ret = "True"
    /\ Len(registry.models) = 2
    /\ UniqueIds(registry.models)
    /\ ~BestIsOptimal(kind, registry)

----------------------------------------------------------------------------
(***************************************************************************)
(* Further properties of the optimizer                                     *)
(***************************************************************************)

----------------------------------------------------------------------------
(***************************************************************************)
(* Properties of the score model                                           *)
(***************************************************************************)

\* C14: for any regressor outputs, including negative and fractional ones,
\* ScorePredictionModel.predict returns home_score and away_score that are
\* integers greater than or equal to 0, with total_score = home_score +
\* away_score and score_diff = home_score - away_score, and each score is the
\* rounded output, or 0 when that is negative.
C14_ScoresClamped ==
    sp_out.status = "ok" =>
        /\ sp_out.home_score \in Nat
        /\ sp_out.away_score \in Nat
        /\ sp_out.total_score = sp_out.home_score + sp_out.away_score
        /\ sp_out.score_diff = sp_out.home_score - sp_out.away_score
        /\ (sp_match.players_known /\ sp_raw[1] >= 0) =>
               /\ 2 * (sp_out.home_score * RawUnit - sp_raw[1]) <= RawUnit
               /\ 2 * (sp_raw[1] - sp_out.home_score * RawUnit) <= RawUnit

\* the home regressor returned a negative fraction and the away regressor a
\* positive fraction that is not an integer
C14_Witness ==
    /\ sp_out.status = "ok"
    /\ sp_match.players_known
    /\ sp_raw[1] < 0 /\ sp_raw[1] % RawUnit # 0
    /\ sp_raw[2] > 0 /\ sp_raw[2] % RawUnit # 0
    /\ sp_out.home_score = 0
    /\ sp_out.away_score > 0

----------------------------------------------------------------------------
(***************************************************************************)
(* Further properties of the refresh cycle                                 *)
(***************************************************************************)

IsPrefix(a, b) == Len(a) <= Len(b) /\ \A i \in 1..Len(a) : a[i] = b[i]

\* the records the history log holds
HistoryRecords(h) == IF h.state = "list" THEN h.items ELSE <<>>

\* C15: each persist replaces the predictions store with the new batch and
\* appends the timestamped copies of the batch to the history log, and the
\* history log is append-only: every record that was in the history before a
\* step is still there afterwards, unchanged and in the same order, followed
\* by the new records.
C15_HistoryAppendOnly ==
    [][/\ IsPrefix(HistoryRecords(history_file), HistoryRecords(history_file'))
       /\ update_history("ok") =>
             /\ predictions_file' = PredFile("batch", cycle)
             /\ HistoryRecords(history_file') =
                   Append(HistoryRecords(history_file), cycle)]_vars

\* the state of the cycle's state machine a stage of the code belongs to:
\* 0 Idle, 1 FetchingData, 2 ComputingStats, 3 LoadingModels,
\* 4 GeneratingPredictions, 5 Persisting
PhaseOf(pc) ==
    CASE pc = "Idle" -> 0
      [] pc \in {"get_token", "fetch_match_history", "fetch_upcoming_matches"} -> 1
      [] pc = "calculate_player_stats" -> 2
      [] pc \in {"load_from_file", "load_models"} -> 3
      [] pc = "generate" -> 4
      [] OTHER -> 5

\* C16: every refresh cycle runs Idle, FetchingData, ComputingStats,
\* LoadingModels, GeneratingPredictions, Persisting, Idle in this order: a
\* stage starts only after the previous one completed, all fetching of
\* external data is finished before statistics are computed, and after a
\* failure no later stage runs and the cycle ends in Idle reporting failure.
C16_StageOrder ==
    [][ref_pc' # ref_pc =>
          \/ ref_pc = "Idle" /\ PhaseOf(ref_pc') = 1
          \/ /\ ref_pc' = "Idle"
             /\ \/ ref_result' = "False"
                \/ PhaseOf(ref_pc) = 5 /\ ref_result' = "True"
          \/ /\ ref_pc # "Idle" /\ ref_pc' # "Idle"
             /\ PhaseOf(ref_pc') \in {PhaseOf(ref_pc), PhaseOf(ref_pc) + 1}]_vars

----------------------------------------------------------------------------
(***************************************************************************)
(* Further properties of prediction generation                             *)
(***************************************************************************)

\* well-formed matches between players that both have statistics
AllPlayersKnown(batch) ==
    \A i \in 1..Len(batch) : batch[i].players_known /\ batch[i].has_teams

\* C17: with a fixed champion pair and statistics available for both players
\* of every match, two runs of prediction generation on identical player_stats
\* and identical upcoming matches return identical output: the run returns,
\* and every field of every prediction equals that of the earlier run.
C17_GenerateDeterministic ==
    /\ []((champions = "both" /\ AllPlayersKnown(matches)) => gen_pc # "raised")
    /\ [][(generate_return /\ AllPlayersKnown(matches)
              /\ last_run.valid /\ last_run.matches = matches)
             => predictions = last_run.predictions]_vars

----------------------------------------------------------------------------
(***************************************************************************)
(* Properties of the readers                                               *)
(***************************************************************************)

----------------------------------------------------------------------------
(***************************************************************************)
(* Properties of the artifact files                                        *)
(***************************************************************************)

\* C19: artifact files are write-once: over any sequence of model creations
\* and save() calls, no artifact path is written more than once.
C19_ArtifactsWriteOnce ==
    \A q \in Paths : art_writes[q] <= 1

----------------------------------------------------------------------------
(***************************************************************************)
(* Properties of generation without a champion                             *)
(***************************************************************************)

\* C20: when a required champion is missing (the winner registry or the
\* score registry is empty), prediction generation returns an empty result
\* without raising and without loading any model artifact.
C20_MissingChampion ==
    champions \in {"no_winner", "no_score"} =>
        /\ gen_pc = "returned"
        /\ predictions = <<>>
        /\ loaded = {}

----------------------------------------------------------------------------
(***************************************************************************)
(* Feature engineering: layout, purity, history windows, row selection     *)
(***************************************************************************)
Width(cfg) ==
    (IF cfg.use_basic_features THEN 6 ELSE 0) + (IF cfg.use_team_features THEN 12 ELSE 0)
    + (IF cfg.use_h2h_features THEN 8 ELSE 0) + (IF cfg.use_recent_form THEN 8 ELSE 0)
    + (IF cfg.use_advanced_features THEN 9 ELSE 0) + (IF cfg.use_temporal_features THEN 3 ELSE 0)

\* where the block of a toggle starts in a vector: after the enabled blocks before it
Offset(cfg, block) ==
    Width([cfg EXCEPT !.use_basic_features = @ /\ block > 1,
                      !.use_team_features = @ /\ block > 2,
                      !.use_h2h_features = @ /\ block > 3,
                      !.use_recent_form = @ /\ block > 4,
                      !.use_advanced_features = @ /\ block > 5,
                      !.use_temporal_features = FALSE])

\* C21: for every configuration of the six toggles, every feature vector that
\* extract_features returns has the sum of the widths of the enabled blocks
\* (6, 12, 8, 8, 9, 3) as its length and holds the enabled blocks in that order
\* (the basic block of the two players' statistics first, the team block after
\* it, the temporal block last), whatever the statistics and the history are.
C21_FixedLayout ==
    fe_result.status = "returned" =>
        \A i \in 1..Len(fe_result.features) :
            LET v == fe_result.features[i]
                m == fe_matches[fe_recent[i].id]
                hp == fe_stats[m.homePlayer]
                ap == fe_stats[m.awayPlayer]
            IN  /\ Len(v) = Width(fe_config)
                /\ fe_config.use_basic_features =>
                      SubSeq(v, 1, 6) = extract_basic_features(hp, ap)
                /\ fe_config.use_team_features =>
                      SubSeq(v, Offset(fe_config, 2) + 1, Offset(fe_config, 2) + 12)
                         = extract_team_features(hp, ap, m.homeTeam, m.awayTeam)
                /\ fe_config.use_h2h_features =>
                      SubSeq(v, Offset(fe_config, 3) + 1, Offset(fe_config, 3) + 8)
                         = extract_h2h_features(hp, ap, m.homePlayer, m.awayPlayer)
                /\ fe_config.use_temporal_features =>
                      SubSeq(v, Len(v) - 2, Len(v)) = extract_temporal_features(fe_recent[i].date)

\* a call over statistics without team entries returned two rows with recent
\* form on and basic features off, one row with empty history windows and one
\* with a match in its windows
C21_Witness ==
    /\ fe_result.status = "returned"
    /\ fe_stats = SparseStats
    /\ fe_config.use_recent_form /\ fe_config.use_team_features
    /\ ~fe_config.use_basic_features
    /\ Len(fe_result.features) = 2
    /\ \E i, j \in 1..2 : /\ fe_recent[i].windows = <<<<>>, <<>>>>
                          /\ fe_recent[j].windows[1] # <<>>

\* a final score is a homeScore and an awayScore that are numbers
HasFinalScore(m) == m.hasScore /\ m.homeScore # PyNone /\ m.awayScore # PyNone

Emits(m) ==
    HasFinalScore(m) /\ m.homePlayer \in DOMAIN fe_stats /\ m.awayPlayer \in DOMAIN fe_stats

LabelsOf(r) == IF fe_mode = "winner" THEN <<r.labels>> ELSE <<r.home_scores, r.away_scores>>

\* C24: a training call returns, and it returns exactly one feature row and one
\* label (one home and one away score) for each input match that has both
\* final scores and whose two players are in player_stats, in input order;
\* a match without a final score or with an absent player adds nothing and
\* does not make the call fail.
C24_OneRowPerScoredMatch ==
    fe_calls > 0 =>
        LET emitting == SelectSeq(fe_matches, Emits)
        IN  /\ fe_result.status = "returned"
            /\ Len(fe_result.features) = Len(emitting)
            /\ \A i \in 1..Len(emitting) : fe_recent[i].id = emitting[i].id
            /\ \A l \in {LabelsOf(fe_result)[k] : k \in 1..Len(LabelsOf(fe_result))} :
                  Len(l) = Len(fe_result.features)

\* C22: a call of extract_features with the arguments of the call before it
\* returns what that call returned.
C22_SameArgumentsSameResult ==
    [][(fe_calls >= 1 /\ fe_calls' = fe_calls + 1) => fe_result' = fe_result]_vars

WindowPlayer(m, k) == IF k = 1 THEN m.homePlayer ELSE m.awayPlayer

\* the matches the window of player p may draw from, for the row r
Candidates(r, p) ==
    {j \in 1..Len(fe_matches) :
        /\ fe_matches[j].hasScore
        /\ j # r.id
        /\ Involves(fe_matches[j], p)
        /\ parse_match_date(fe_matches[j], r.read) < r.date}

\* C23: the recent-form windows of a processed match hold only scored matches
\* of the player, never the match itself and never a match of the same or of a
\* later date (the date of a window match is a day before the day of the
\* processed match), at most recent_matches_window of them, and no match left
\* out of a window is more recent than one in it (none is left out of a window
\* that is not full).
C23_WindowsBeforeMatch ==
    \A i \in 1..Len(fe_recent) : \A k \in 1..2 :
        LET r == fe_recent[i]
            w == r.windows[k]
            p == WindowPlayer(fe_matches[r.id], k)
            in_w == {w[x] : x \in 1..Len(w)}
        IN  /\ in_w \subseteq Candidates(r, p)
            /\ \A j \in in_w :
                  DayOf(parse_match_date(fe_matches[j], r.read)) < DayOf(r.date)
            /\ Cardinality(in_w) = Len(w)
            /\ Len(w) <= fe_config.recent_matches_window
            /\ \A c \in Candidates(r, p) \ in_w :
                  /\ Len(w) = fe_config.recent_matches_window
                  /\ \A j \in in_w : parse_match_date(fe_matches[c], r.read)
                                        <= parse_match_date(fe_matches[j], r.read)

----------------------------------------------------------------------------
(***************************************************************************)
(* Token cache                                                             *)
(***************************************************************************)
\* the cache file holds a token whose expiry is still in the future
CacheFresh == tk_cache.state = "valid" /\ fromisoformat(tk_cache.expiry) > now

----------------------------------------------------------------------------
(***************************************************************************)
(* Optimizer: the returned triple                                          *)
(***************************************************************************)
\* C26: whenever optimize() returns, on a first or on a later call of the
\* instance, best_model is a model trained with the returned best_params and
\* its oriented score is the returned best_score.
C26_ReturnedTripleConsistent ==
    opt_pc = "returned" =>
        /\ best_model # NoModel
        /\ best_model.params = best_params
        /\ best_model.score = best_score

----------------------------------------------------------------------------
(***************************************************************************)
(* Registry: the designated best is a listed entry                         *)
(***************************************************************************)
\* C27: in a registry that started empty, after any register_model, add_model
\* and remove_model calls, best_model_id is None exactly when list_models() is
\* empty and otherwise is the model_id of a listed entry, so that
\* get_best_model_info() returns a listed entry and never None on a non-empty
\* registry.
C27_BestIsListedEntry ==
    (inst = "live" /\ registry.hasModels) =>
        /\ (registry.best_model_id = NoneId) <=> (list_models(registry) = <<>>)
        /\ list_models(registry) # <<>> =>
              /\ get_best_model_info(registry) # NoEntry
              /\ \E i \in 1..Len(list_models(registry)) :
                    /\ list_models(registry)[i] = get_best_model_info(registry)
                    /\ list_models(registry)[i].model_id = registry.best_model_id

\* the best of two entries was removed and the other entry became the best
C27_Witness ==
    /\ call = "remove" /\ ret = "True"
    /\ Len(list_models(registry)) = 1
    /\ registry.best_model_id = list_models(registry)[1].model_id
    /\ get_model_info(load_registry(store), registry.best_model_id) # NoEntry
    /\ overwrote

----------------------------------------------------------------------------
(***************************************************************************)
(* Score model: save and load                                              *)
(***************************************************************************)
\* C28: for a match whose two players are in player_stats, predict on a
\* ScorePredictionModel that was trained, saved and loaded succeeds whenever
\* predict on the trained model did, and returns the same scores.
C28_LoadedPredictsAsTrained ==
    (sp_trip.done /\ sp_trip.match.players_known) =>
        /\ sp_trip.after = sp_trip.before
        /\ sp_trip.before # Raised => sp_trip.after # Raised

----------------------------------------------------------------------------
(***************************************************************************)
(* C29: registrations through two instances over one store                 *)
(***************************************************************************)

StoreLists(id) == IndexOf(list_models(load_registry(sh_store)), id) # 0

\* C29: when two registry instances constructed over the same store each
\* register a model with a distinct model_id and both calls return True, then
\* right after the second call the store lists both entries and its
\* best_model_id designates the best-scoring of the stored entries.
C29_NoRegistrationLost ==
    (/\ Len(sh_log) >= 2
     /\ sh_log[Len(sh_log)].ret = "True"
     /\ sh_log[Len(sh_log) - 1].ret = "True"
     /\ sh_log[Len(sh_log)].who # sh_log[Len(sh_log) - 1].who
     /\ sh_log[Len(sh_log)].model_id # sh_log[Len(sh_log) - 1].model_id)
    => /\ StoreLists(sh_log[Len(sh_log)].model_id)
       /\ StoreLists(sh_log[Len(sh_log) - 1].model_id)
       /\ BestIsOptimal(kind, load_registry(sh_store))

----------------------------------------------------------------------------
(***************************************************************************)
(* C30: what clean_model_registry removes and keeps                        *)
(***************************************************************************)

\* the model of this entry was trained on too few samples, or its accuracy is 1.0
ToBeRemoved(m, min_samples) ==
    cl_trained[m.model_id] < min_samples \/ m.score = MaxAccuracy

\* C30: clean_model_registry(min_samples) removes exactly the entries of models
\* trained on fewer than min_samples samples or with accuracy exactly 1.0 and
\* keeps every other entry, also one registered through add_model; afterwards
\* the designated best is the highest-accuracy remaining entry, or None when
\* nothing remains.
C30_CleanRemovesExactlyProblematic ==
    cl_last.done =>
        /\ cl_last.removed_models =
              SelectSeq(cl_last.models, LAMBDA m : ToBeRemoved(m, cl_last.min_samples))
        /\ cl_last.remaining_models =
              SelectSeq(cl_last.models, LAMBDA m : ~ToBeRemoved(m, cl_last.min_samples))
        /\ list_models(cl_registry) = cl_last.remaining_models
        /\ BestIsOptimal("winner", cl_registry)
====
